---- MODULE Spec2Model ----
(***************************************************************************)
(* A state-machine model of the sampling-distribution (Central Limit       *)
(* Theorem) engine of public/shared/clt-working.js: the Engine class, the  *)
(* host's animation loop and the control handlers that call the engine.    *)
(*                                                                         *)
(* Units.  Times are in milliseconds.  Vertical positions are in           *)
(* millipixels and velocities in pixels per second, so that the code's     *)
(* vy += g*dt and y += vy*dt (dt in seconds) are exact on integers:        *)
(* vy += g*dtMs/1000 and y(mpx) += vy*dtMs.  Sample values are always bin  *)
(* centres (c + 0.5)/COLS, so a value is kept as its bin index c and the   *)
(* statistics are computed on the exact rationals.                         *)
(***************************************************************************)
EXTENDS Integers, Sequences, FiniteSets, TLC

(***************************************************************************)
(* Program constants                                                       *)
(***************************************************************************)
COLS == 60
STAT_BINS == COLS
PAD == 16
MAX_WEIGHT == 10000
FLASH_MS == 160
TIMER_MS == 100
G_NORMAL == 1400
G_FAST == 2400
DT_CAP_MS == 60
LAND_EPS == 100
EPS_DEN == 1000000000
TURBO_RUNS == 1000
TOP_UNITS == 30
MID_UNITS == 24
BOT_UNITS == 36
TOTAL_UNITS == TOP_UNITS + MID_UNITS + BOT_UNITS
MIN_BOX == 6
MIN_INNER_W == 200

Cols == 0 .. (COLS - 1)
StatBins == 0 .. (STAT_BINS - 1)
Statistics == {"mean", "median", "sd", "proportion"}

clamp(x, a, b) == IF x < a THEN a ELSE IF x > b THEN b ELSE x

(***************************************************************************)
(* 32-bit words.  TLC's integers are 32-bit signed, so an unsigned 32-bit  *)
(* word w is kept as the pair <<w \div 2^16, w % 2^16>> of 16-bit halves,  *)
(* and every operation below is the JavaScript operation modulo 2^32.      *)
(***************************************************************************)
H16 == 256 * 256

\* bitwise exclusive or and bitwise or of two bits-wide numbers
RECURSIVE XorBits(_, _)
XorBits(x, y) ==
    IF x = 0 THEN y
    ELSE IF y = 0 THEN x
    ELSE ((x + y) % 2) + 2 * XorBits(x \div 2, y \div 2)

RECURSIVE OrBits(_, _)
OrBits(x, y) ==
    IF x = 0 THEN y
    ELSE IF y = 0 THEN x
    ELSE (IF x % 2 = 1 \/ y % 2 = 1 THEN 1 ELSE 0) + 2 * OrBits(x \div 2, y \div 2)

\* the same on hexadecimal digits, tabulated
Xor4 == [a \in 0 .. 15 |-> [b \in 0 .. 15 |-> XorBits(a, b)]]

XorByte(x, y) == Xor4[x \div 16][y \div 16] * 16 + Xor4[x % 16][y % 16]

Xor16(x, y) == XorByte(x \div 256, y \div 256) * 256 + XorByte(x % 256, y % 256)

Or16(x, y) == OrBits(x, y)

RECURSIVE Pow2(_)
Pow2(k) == IF k = 0 THEN 1 ELSE 2 * Pow2(k - 1)

\* a ^ b
Xor32(a, b) == <<Xor16(a[1], b[1]), Xor16(a[2], b[2])>>

\* c | a, for a small constant c < 2^16
OrSmall32(c, a) == <<a[1], Or16(c, a[2])>>

\* a >>> k, for 0 < k < 16
Shr32(a, k) ==
    <<a[1] \div Pow2(k), (a[1] % Pow2(k)) * Pow2(16 - k) + (a[2] \div Pow2(k))>>

\* (a + b) mod 2^32
Add32(a, b) ==
    LET lo == a[2] + b[2]
    IN  <<(a[1] + b[1] + (lo \div H16)) % H16, lo % H16>>

\* the low 16 bits of x*y, for x, y < 2^16 (partial products stay below 2^24)
MulLo16(x, y) == ((x % 256) * y + (((x \div 256) * y) % 256) * 256) % H16

\* the full 32-bit product x*y of two 16-bit halves, as a word
Mul16(x, y) ==
    LET p0 == (x % 256) * y
        p1 == (x \div 256) * y
        s  == (p1 % 256) * 256 + (p0 % H16)
    IN  <<(p1 \div 256) + (p0 \div H16) + (s \div H16), s % H16>>

\* Math.imul(a, b): the low 32 bits of a*b
Imul32(a, b) ==
    LET ll == Mul16(a[2], b[2])
        cross == (MulLo16(a[1], b[2]) + MulLo16(a[2], b[1])) % H16
    IN  <<(ll[1] + cross) % H16, ll[2]>>

Word32(hi, lo) == <<hi, lo>>

\* 0x6D2B79F5
MULBERRY_INC == Word32(27947, 31221)

(***************************************************************************)
(* rngMulberry32: the closure's state is t; one call advances t and        *)
(* returns the 32-bit numerator r of the result r / 2^32.                  *)
(***************************************************************************)
\* a seed is a signed integer: its sign and its magnitude as a word
SeedValue(neg, hi, lo) == [neg |-> neg, mag |-> Word32(hi, lo)]

\* seed >>> 0: the seed modulo 2^32
rngSeed(seed) ==
    IF seed.neg
    THEN Add32(<<H16 - 1 - seed.mag[1], H16 - 1 - seed.mag[2]>>, Word32(0, 1))
    ELSE seed.mag

rngAdvance(t) == Add32(t, MULBERRY_INC)

rngOutput(t) ==
    LET r1 == Imul32(Xor32(t, Shr32(t, 15)), OrSmall32(1, t))
        r2 == Xor32(r1, Add32(r1, Imul32(Xor32(r1, Shr32(r1, 7)), OrSmall32(61, r1))))
    IN  Xor32(r2, Shr32(r2, 14))

(***************************************************************************)
(* Statistics.  A sample is a sequence of bin indices; the value of index  *)
(* c is (c + 0.5)/COLS = Num2(c) / (2*COLS).  A statistic is an exact      *)
(* rational [num, den] (den > 0), or, for the standard deviation, the      *)
(* square root of one ([sq |-> TRUE]).                                     *)
(***************************************************************************)
Num2(c) == 2 * c + 1

RECURSIVE SumNum2(_)
SumNum2(cs) == IF cs = <<>> THEN 0 ELSE Num2(Head(cs)) + SumNum2(Tail(cs))

RECURSIVE SumSqNum2(_)
SumSqNum2(cs) ==
    IF cs = <<>> THEN 0 ELSE Num2(Head(cs)) * Num2(Head(cs)) + SumSqNum2(Tail(cs))

RECURSIVE Insert(_, _)
Insert(x, s) ==
    IF s = <<>> THEN <<x>>
    ELSE IF x <= Head(s) THEN <<x>> \o s
    ELSE <<Head(s)>> \o Insert(x, Tail(s))

RECURSIVE SortAsc(_)
SortAsc(s) == IF s = <<>> THEN <<>> ELSE Insert(Head(s), SortAsc(Tail(s)))

Rat(p, q) == [num |-> p, den |-> q, sq |-> FALSE]
SqrtRat(p, q) == [num |-> p, den |-> q, sq |-> TRUE]
NaN == [num |-> 0, den |-> 0, sq |-> FALSE]
IsNaN(v) == v.den = 0

\* mean(a): the sum over the length, NaN on the empty sequence
mean(cs) ==
    IF Len(cs) = 0 THEN NaN ELSE Rat(SumNum2(cs), 2 * COLS * Len(cs))

\* varianceUnbiased(a) = Q / (4 COLS^2 n (n-1)), Q = n*sum(a^2) - (sum a)^2;
\* NaN when n < 2
varianceUnbiased(cs) ==
    LET len == Len(cs)
    IN  IF len < 2 THEN NaN
        ELSE Rat(len * SumSqNum2(cs) - SumNum2(cs) * SumNum2(cs),
                 4 * COLS * COLS * len * (len - 1))

\* the square root taken without the guard: sqrt(NaN) is NaN
robustSDUnguarded(cs) ==
    LET v == varianceUnbiased(cs)
    IN  IF IsNaN(v) THEN NaN ELSE SqrtRat(v.num, v.den)
\* robustSD(a): sqrt of the variance, 0 when the variance is not finite
robustSD(cs) ==
    LET v == varianceUnbiased(cs)
    IN  IF ~IsNaN(v) /\ v.num >= 0 THEN SqrtRat(v.num, v.den) ELSE Rat(0, 1)

\* the middle taken from the sequence as given
medUnsorted(cs) ==
    IF Len(cs) = 0 THEN NaN
    ELSE LET m == Len(cs) \div 2
         IN  IF Len(cs) % 2 = 1 THEN Rat(Num2(cs[m + 1]), 2 * COLS)
             ELSE Rat(Num2(cs[m]) + Num2(cs[m + 1]), 4 * COLS)
\* med(a): the middle of a sorted copy, the average of the two middle
\* elements on even length
med(cs) ==
    IF Len(cs) = 0 THEN NaN
    ELSE LET b == SortAsc(cs)
             m == Len(b) \div 2
         IN  IF Len(b) % 2 = 1 THEN Rat(Num2(b[m + 1]), 2 * COLS)
             ELSE Rat(Num2(b[m]) + Num2(b[m + 1]), 4 * COLS)

\* x > threshold for the value of bin c; the threshold is th/100
AboveThreshold(c, th) == Num2(c) * 100 > th * 2 * COLS

RECURSIVE CountAbove(_, _)
CountAbove(cs, th) ==
    IF cs = <<>> THEN 0
    ELSE (IF AboveThreshold(Head(cs), th) THEN 1 ELSE 0) + CountAbove(Tail(cs), th)

\* Engine.statDomain, in halves: max2 = 2*max
statDomain(stat) ==
    IF stat = "sd" THEN [min2 |-> 0, max2 |-> 1] ELSE [min2 |-> 0, max2 |-> 2]

\* Engine.computeStat
computeStat(stat, th, cs) ==
    IF Len(cs) = 0 THEN NaN
    ELSE IF stat = "mean" THEN mean(cs)
    ELSE IF stat = "median" THEN med(cs)
    ELSE IF stat = "sd" THEN robustSD(cs)
    ELSE IF stat = "proportion" THEN Rat(CountAbove(cs, th), Len(cs))
    ELSE NaN

(***************************************************************************)
(* binOf: x01 = clamp((val - min) / (max - min + 1e-9), 0, 1),             *)
(* bin = clamp(floor(x01 * binCount), 0, binCount - 1).                    *)
(*                                                                         *)
(* ScaledAtLeast(v, dom, binCount, k) is k <= x01 * binCount for 0 <= k <= *)
(* binCount, decided exactly.  With a = 2*num - min2*den, span2 = max2 -   *)
(* min2 and E = EPS_DEN, the unclamped quotient is a*E / (den*(span2*E +   *)
(* 2)), so k <= quotient * binCount iff 2*k*den <= E*(a*binCount -         *)
(* k*den*span2).  For a square root the same comparison is made on the     *)
(* squares; there the 1e-9 moves a value only across a boundary it sits    *)
(* on exactly (the sample sizes of the model keep every other value        *)
(* further than 2*binCount/E from a boundary), so k <= x01*binCount iff    *)
(* k = 0 or k^2 * den * span2^2 < 4 * binCount^2 * num.                    *)
(***************************************************************************)
ScaledAtLeast(v, dom, binCount, k) ==
    LET span2 == dom.max2 - dom.min2
    IN  IF v.sq
        THEN k = 0 \/ k * k * v.den * span2 * span2 < 4 * binCount * binCount * v.num
        ELSE LET a == 2 * v.num - dom.min2 * v.den
                 d == a * binCount - k * v.den * span2
             IN  IF k = 0 THEN TRUE
                 ELSE IF d <= 0 THEN FALSE
                 ELSE (2 * k * v.den + d - 1) \div d <= EPS_DEN

\* floor(x01 * binCount), x01 already clamped to [0, 1]: the largest k of
\* lo .. hi with k <= x01 * binCount (ScaledAtLeast is monotone in k and
\* holds at lo)
RECURSIVE FloorBetween(_, _, _, _, _)
FloorBetween(v, dom, binCount, lo, hi) ==
    IF lo = hi THEN lo
    ELSE LET half == (lo + hi + 1) \div 2
         IN  IF ScaledAtLeast(v, dom, binCount, half)
             THEN FloorBetween(v, dom, binCount, half, hi)
             ELSE FloorBetween(v, dom, binCount, lo, half - 1)

FloorScaled(v, dom, binCount) == FloorBetween(v, dom, binCount, 0, binCount)

binOfUnclamped(v, dom, binCount) == FloorScaled(v, dom, binCount)

binOf(v, dom, binCount) == clamp(FloorScaled(v, dom, binCount), 0, binCount - 1)

(***************************************************************************)
(* Engine.sampleN: n weighted draws by cumulative-weight inversion, or a   *)
(* uniform bin when the total weight is zero.  r is the numerator of       *)
(* rng() = r / 2^32; the products below are exact in double precision      *)
(* (r < 2^32, total < 2^15), so the comparisons are made on integers.      *)
(***************************************************************************)
\* the sum of counts[lo .. hi-1], by halving
RECURSIVE SumRange(_, _, _)
SumRange(counts, lo, hi) ==
    IF hi <= lo THEN 0
    ELSE IF hi = lo + 1 THEN counts[lo]
    ELSE SumRange(counts, lo, (lo + hi) \div 2) + SumRange(counts, (lo + hi) \div 2, hi)

SumCounts(counts, size) == SumRange(counts, 0, size)

TotalWeight(weights) == SumCounts(weights, COLS)

\* Math.floor(rng() * COLS)
PickUniform(r) == (r[1] * COLS + ((r[2] * COLS) \div H16)) \div H16

\* target <= acc, for target = rng() * total
TargetAtMost(r, total, acc) ==
    LET a == r[1] * total
        b == r[2] * total
        m == a + (b \div H16)
        q == m \div H16
    IN  q < acc \/ (q = acc /\ m % H16 = 0 /\ b % H16 = 0)

\* the scan over bins lo .. hi-1 with acc the weight before lo: the first
\* bin whose cumulative weight reaches the target, COLS when none does
\* (weights are never negative, so the search can go by halves)
RECURSIVE ScanRange(_, _, _, _, _, _)
ScanRange(r, weights, total, lo, hi, acc) ==
    IF hi = lo + 1
    THEN IF TargetAtMost(r, total, acc + weights[lo]) THEN lo ELSE COLS
    ELSE LET half == (lo + hi) \div 2
             left == acc + SumRange(weights, lo, half)
         IN  IF TargetAtMost(r, total, left)
             THEN ScanRange(r, weights, total, lo, half, acc)
             ELSE ScanRange(r, weights, total, half, hi, left)

\* let pick = COLS >> 1; for (c ...) { acc += weights[c]; if (target <= acc)
\* { pick = c; break; } }
PickWeighted(r, weights, total) ==
    LET c == ScanRange(r, weights, total, 0, COLS, 0)
    IN  IF c = COLS THEN COLS \div 2 ELSE c

PickBin(r, weights, total) ==
    IF total = 0 THEN PickUniform(r) ELSE PickWeighted(r, weights, total)

\* the draws of sampleN still to make from generator state t, after the
\* bins cols; total is computed once
RECURSIVE DrawBins(_, _, _, _, _)
DrawBins(t, size, weights, total, cols) ==
    IF size <= 0 THEN [cols |-> cols, rng |-> t]
    ELSE DrawBins(rngAdvance(t), size - 1, weights, total,
                  Append(cols, PickBin(rngOutput(rngAdvance(t)), weights, total)))

\* xs[i] = (cols[i] + 0.5) / COLS
ValuesOf(cols) == [i \in 1 .. Len(cols) |-> Rat(Num2(cols[i]), 2 * COLS)]

\* variant: one call of the generator before the draws
sampleNExtraDraw(t, size, weights) ==
    LET d == DrawBins(rngAdvance(t), size, weights, TotalWeight(weights), <<>>)
    IN  [cols |-> d.cols, xs |-> ValuesOf(d.cols), rng |-> d.rng]
\* sampleN(n) from generator state t: the chosen bins, their values and the
\* state left
sampleN(t, size, weights) ==
    LET d == DrawBins(t, size, weights, TotalWeight(weights), <<>>)
    IN  [cols |-> d.cols, xs |-> ValuesOf(d.cols), rng |-> d.rng]

(***************************************************************************)
(* State.  The Engine's fields keep their names.  clock is the host's      *)
(* time (performance.now() and the animation frame's timestamp), timers    *)
(* the pending setTimeout callbacks of drawSampleWithAutoCalculate.        *)
(* History variables (never read by an action's effect on the program      *)
(* state): drawn, the samples startSample has drawn, in order; requests,   *)
(* the times of the draw requests made; resets, the number of resets;      *)
(* gatherLog, for every gather started, its destination bin, the number of *)
(* the request that started it, the resets made before it and the sampling *)
(* distribution it started from (botCounts with the stat particles then    *)
(* falling); lastRequestAt, the time of the latest user operation; edits,  *)
(* the number of other control operations; turboLog, the sum of botCounts  *)
(* at the start of every turbo run.  frameMs is the interval at which the  *)
(* host delivers animation frames, lastFrame the time of the latest frame, *)
(* n the sample size the host's slider holds, turboLeft the number of      *)
(* iterations the running handleRepeatTurbo loop still has to make (0 when *)
(* none is running).  seedLog, lastPaint and probe are described with the  *)
(* operations that write them.  lines is this.lines, the marker lines      *)
(* (parameter, sample statistic, sampling mean) as updateLines last left   *)
(* them: draw paints them from this cache.                                 *)
(***************************************************************************)
VARIABLES
    plotW, gridW, colW, BOX, gridX0, H_TOP, H_MID, H_BOT, marginY,
    BOX_TOP_Y, BOX_MID_Y, BOX_BOT_Y,
    popCounts, midCounts, botCounts,
    sampleParticles, statParticles, popFlashes,
    gatherParticles, gatherTarget, gathering, gatherStart, gatherDur,
    emissionPlan, lastSample, lastGatheringSample,
    statistic, threshold, speed, rng, needsRedraw,
    clock, lastFrame, frameMs, n, repeatAbort, timers, turboLeft,
    drawn, requests, resets, edits, gatherLog, lastRequestAt, turboLog,
    seedLog, lastPaint, probe, alerts, frameLog, layoutLog,
    lines

geomVars == <<plotW, gridW, colW, BOX, gridX0, H_TOP, H_MID, H_BOT, marginY>>
scaleVars == <<BOX_TOP_Y, BOX_MID_Y, BOX_BOT_Y>>
settingVars == <<statistic, threshold, speed, gatherDur>>
gatherVars == <<gatherParticles, gatherTarget, gathering, gatherStart, lastGatheringSample>>
hostVars == <<frameMs, n, repeatAbort>>
histVars == <<drawn, requests, resets, edits, gatherLog, lastRequestAt, turboLog>>
auxVars == <<seedLog, lastPaint, probe, alerts, frameLog, layoutLog>>
vars == <<geomVars, scaleVars, popCounts, midCounts, botCounts,
          sampleParticles, statParticles, popFlashes, gatherVars,
          emissionPlan, lastSample, settingVars, rng, needsRedraw,
          clock, lastFrame, hostVars, timers, turboLeft, histVars, auxVars,
          lines>>

MPX == 10 * 10 * 10
Min(a, b) == IF a < b THEN a ELSE b
Max(a, b) == IF a > b THEN a ELSE b
ZeroCounts(k) == [c \in 0 .. (k - 1) |-> 0]

\* maxOf(arr): arr.reduce((m, v) => (v > m ? v : m), 0)
MaxCount(hist, size) ==
    LET vals == {hist[c] : c \in 0 .. (size - 1)} \cup {0}
    IN  CHOOSE m \in vals : \A v \in vals : v <= m

\* variant: the landed particles are not counted
AddColsLost(hist, parts) == hist

\* counts[key]++ for every particle of a list (key "col" or "bin")
RECURSIVE AddCols(_, _)
AddCols(hist, parts) ==
    IF parts = <<>> THEN hist
    ELSE AddCols([hist EXCEPT ![Head(parts).col] = @ + 1], Tail(parts))

\* variant: the landed stat particles are not counted
AddBinsLost(hist, parts) == hist

RECURSIVE AddBins(_, _)
AddBins(hist, parts) ==
    IF parts = <<>> THEN hist
    ELSE AddBins([hist EXCEPT ![Head(parts).bin] = @ + 1], Tail(parts))

\* the number of entries of a particle list that carry key value v
RECURSIVE CountCol(_, _)
CountCol(parts, v) ==
    IF parts = <<>> THEN 0
    ELSE (IF Head(parts).col = v THEN 1 ELSE 0) + CountCol(Tail(parts), v)

RECURSIVE CountBin(_, _)
CountBin(parts, v) ==
    IF parts = <<>> THEN 0
    ELSE (IF Head(parts).bin = v THEN 1 ELSE 0) + CountBin(Tail(parts), v)

\* the per-bin histogram of a sequence of bin indices
RECURSIVE CountIn(_, _)
CountIn(cs, v) ==
    IF cs = <<>> THEN 0 ELSE (IF Head(cs) = v THEN 1 ELSE 0) + CountIn(Tail(cs), v)

HistOf(cs, k) == [c \in 0 .. (k - 1) |-> CountIn(cs, c)]

\* the values the sample histogram stands for, bin by bin
RECURSIVE ListRange(_, _, _)
ListRange(counts, lo, hi) ==
    IF hi <= lo THEN <<>>
    ELSE IF hi = lo + 1 THEN [r \in 1 .. counts[lo] |-> lo]
    ELSE ListRange(counts, lo, (lo + hi) \div 2) \o ListRange(counts, (lo + hi) \div 2, hi)

ListFromCounts(counts) == ListRange(counts, 0, COLS)

(***************************************************************************)
(* The marker lines.  popStats gives the population's mean, median,        *)
(* standard deviation and proportion above the threshold; updateLines      *)
(* caches, for each line, its value, its pixel x and whether it shows.     *)
(* Values are kept in lowest terms; the population's standard deviation    *)
(* sqrt(S2/T - (S1/T)^2) / (2 COLS) is kept as its sums T, S1, S2 of the   *)
(* weights, the weights times 2c+1 and the weights times (2c+1)^2.         *)
(***************************************************************************)
RECURSIVE Gcd(_, _)
Gcd(a, b) == IF b = 0 THEN a ELSE Gcd(b, a % b)

Lowest(v) ==
    IF v.den = 0 THEN v
    ELSE IF v.num = 0 THEN [v EXCEPT !.den = 1]
    ELSE [v EXCEPT !.num = v.num \div Gcd(v.num, v.den),
                   !.den = v.den \div Gcd(v.num, v.den)]

\* the sum of counts[c] * (2c+1)^power over lo .. hi-1, by halving
RECURSIVE WeightedRange(_, _, _, _)
WeightedRange(counts, lo, hi, power) ==
    IF hi <= lo THEN 0
    ELSE IF hi = lo + 1
    THEN counts[lo] * (IF power = 2 THEN Num2(lo) * Num2(lo) ELSE Num2(lo))
    ELSE WeightedRange(counts, lo, (lo + hi) \div 2, power)
         + WeightedRange(counts, (lo + hi) \div 2, hi, power)

\* variant: the running weight has to pass half the total
RECURSIVE MedianBinStrict(_, _, _, _)
MedianBinStrict(pc, c, acc, total) ==
    IF 2 * (acc + pc[c]) > total \/ c = COLS - 1 THEN c
    ELSE MedianBinStrict(pc, c + 1, acc + pc[c], total)
\* the first bin at which the running weight reaches half the total
RECURSIVE MedianBin(_, _, _, _)
MedianBin(pc, c, acc, total) ==
    IF 2 * (acc + pc[c]) >= total \/ c = COLS - 1 THEN c
    ELSE MedianBin(pc, c + 1, acc + pc[c], total)

RECURSIVE WeightAbove(_, _, _)
WeightAbove(pc, th, c) ==
    IF c >= COLS THEN 0
    ELSE (IF AboveThreshold(c, th) THEN pc[c] ELSE 0) + WeightAbove(pc, th, c + 1)

\* get popStats
popStats(pc, th) ==
    LET total == TotalWeight(pc)
    IN  IF total = 0
        THEN [total |-> 0, mu |-> Rat(1, 2), sd |-> Rat(0, 1), med |-> Rat(1, 2),
              pthr |-> Rat(0, 1)]
        ELSE [total |-> total,
              mu |-> Lowest(Rat(WeightedRange(pc, 0, COLS, 1), 2 * COLS * total)),
              sd |-> [sums |-> <<total, WeightedRange(pc, 0, COLS, 1),
                                WeightedRange(pc, 0, COLS, 2)>>],
              med |-> Lowest(Rat(Num2(MedianBin(pc, 0, 0, total)), 2 * COLS)),
              pthr |-> Lowest(Rat(WeightAbove(pc, th, 0), total))]

IsRational(v) == DOMAIN v = {"num", "den", "sq"} /\ ~v.sq /\ v.den > 0

\* Engine.valueToX: gridX0 + clamp((value - min) / (max - min), 0, 1) * gridW,
\* a pixel in lowest terms for a rational value; for a square root the
\* value with the geometry and the domain that place it
valueToX(value, stat, gx0, gw) ==
    LET max2 == statDomain(stat).max2
    IN  IF IsRational(value)
        THEN IF 2 * value.num >= value.den * max2 THEN Rat(gx0 + gw, 1)
             ELSE IF value.num <= 0 THEN Rat(gx0, 1)
             ELSE Lowest(Rat(gx0 * value.den * max2 + 2 * value.num * gw,
                             value.den * max2))
        ELSE [of |-> value, gridX0 |-> gx0, gridW |-> gw, max2 |-> max2]

\* the constructor's this.lines: values and positions null
ConstructedLines ==
    [parameter |-> [value |-> <<>>, x |-> <<>>, visible |-> TRUE],
     sampleStat |-> [value |-> <<>>, x |-> <<>>, visible |-> FALSE],
     samplingMean |-> [value |-> <<>>, x |-> <<>>, visible |-> FALSE]]

\* the mean of the sampling distribution over the bin centres of its domain
SamplingMean(bot, stat) ==
    Lowest(Rat(WeightedRange(bot, 0, STAT_BINS, 1) * statDomain(stat).max2,
               4 * STAT_BINS * SumCounts(bot, STAT_BINS)))

\* Engine.updateLines on the cache prev, reading the population, the
\* statistic and threshold, the current sample, the sampling distribution
\* and the grid
updateLines(prev, pc, stat, th, sample, bot, gx0, gw) ==
    LET ps == popStats(pc, th)
        paramValue == IF stat = "median" THEN ps.med
                      ELSE IF stat = "sd" THEN ps.sd
                      ELSE IF stat = "proportion" THEN ps.pthr
                      ELSE ps.mu
        sampleStatValue == Lowest(computeStat(stat, th, sample))
    IN  [parameter |-> [prev.parameter EXCEPT
                           !.value = paramValue,
                           !.x = valueToX(paramValue, stat, gx0, gw)],
         sampleStat |->
            IF Len(sample) > 0
            THEN [value |-> sampleStatValue,
                  x |-> valueToX(sampleStatValue, stat, gx0, gw),
                  visible |-> ~IsNaN(sampleStatValue)]
            ELSE [prev.sampleStat EXCEPT !.visible = FALSE],
         samplingMean |->
            IF SumCounts(bot, STAT_BINS) > 0
            THEN [value |-> SamplingMean(bot, stat),
                  x |-> valueToX(SamplingMean(bot, stat), stat, gx0, gw),
                  visible |-> TRUE]
            ELSE [prev.samplingMean EXCEPT !.visible = FALSE]]

(***************************************************************************)
(* Engine constructor and resetGeometry({})                                *)
(***************************************************************************)
\* Engine.resetGeometry({plotW, topH, midH, botH}): the fields it sets
Geometry(w, topH, midH, botH) ==
    LET cw == (w - 2 * PAD) \div COLS
        box == Max(MIN_BOX, cw)
    IN  [plotW |-> w, colW |-> cw, BOX |-> box, gridW |-> box * COLS,
         gridX0 |-> (w - box * COLS) \div 2,
         H_TOP |-> topH, H_MID |-> midH, H_BOT |-> botH]

\* Engine.layoutFromViewport(plotW, canvasH): the cell size it derives
LayoutBox(w, h) ==
    LET innerW == Max(MIN_INNER_W, w - 2 * PAD)
        fromWidth == Max(MIN_BOX, innerW \div COLS)
        fromHeight == Max(MIN_BOX, (h - 2 * 16) \div TOTAL_UNITS)
    IN  Min(fromWidth, fromHeight)

ViewportGeometry(w, h) ==
    Geometry(w, TOP_UNITS * LayoutBox(w, h), MID_UNITS * LayoutBox(w, h),
             BOT_UNITS * LayoutBox(w, h))

HasGeometry(g) ==
    /\ plotW = g.plotW /\ colW = g.colW /\ BOX = g.BOX /\ gridW = g.gridW
    /\ gridX0 = g.gridX0 /\ H_TOP = g.H_TOP /\ H_MID = g.H_MID /\ H_BOT = g.H_BOT

resetGeometryShifting(w, topH, midH, botH) ==
    \E g \in {Geometry(w, topH, midH, botH)} :
        /\ plotW' = g.plotW /\ colW' = g.colW /\ BOX' = g.BOX /\ gridW' = g.gridW
        /\ gridX0' = gridX0 + g.gridX0 /\ H_TOP' = g.H_TOP /\ H_MID' = g.H_MID
        /\ H_BOT' = g.H_BOT
        /\ marginY' = marginY
        /\ needsRedraw' = TRUE

resetGeometry(w, topH, midH, botH) ==
    \E g \in {Geometry(w, topH, midH, botH)} :
        /\ plotW' = g.plotW /\ colW' = g.colW /\ BOX' = g.BOX /\ gridW' = g.gridW
        /\ gridX0' = g.gridX0 /\ H_TOP' = g.H_TOP /\ H_MID' = g.H_MID /\ H_BOT' = g.H_BOT
        /\ marginY' = marginY
        /\ needsRedraw' = TRUE

layoutFromViewport(w, h) ==
    /\ resetGeometry(w, TOP_UNITS * LayoutBox(w, h), MID_UNITS * LayoutBox(w, h),
                     BOT_UNITS * LayoutBox(w, h))
    /\ layoutLog' = <<[w |-> w, h |-> h]>>

\* the constructor's fields and its resetGeometry({})
GeometryInit ==
    /\ HasGeometry(Geometry(960, 300, 240, 360))
    /\ marginY = 8
    /\ BOX_TOP_Y = 8 * MPX /\ BOX_MID_Y = 8 * MPX /\ BOX_BOT_Y = 8 * MPX

EngineFields ==
    /\ midCounts = ZeroCounts(COLS)
    /\ botCounts = ZeroCounts(STAT_BINS)
    /\ sampleParticles = <<>> /\ statParticles = <<>> /\ popFlashes = <<>>
    /\ gatherParticles = <<>> /\ gatherTarget = <<>> /\ gathering = FALSE
    /\ gatherStart = 0 /\ gatherDur = 260
    /\ emissionPlan = <<>>
    /\ lastSample = <<>> /\ lastGatheringSample = <<>>
    /\ threshold = 50 /\ speed = "normal"
    /\ needsRedraw = TRUE

EngineInit == GeometryInit /\ EngineFields

Engine_hasActiveAnimations(plan, sp, stp, g, fl, gp) ==
    \/ plan # <<>> \/ Len(sp) > 0 \/ Len(stp) > 0
    \/ g \/ Len(fl) > 0 \/ Len(gp) > 0

\* the sample particles left out
hasActiveAnimationsNoSample ==
    Engine_hasActiveAnimations(emissionPlan, <<>>, statParticles,
                               gathering, popFlashes, gatherParticles)
hasActiveAnimations ==
    Engine_hasActiveAnimations(emissionPlan, sampleParticles, statParticles,
                               gathering, popFlashes, gatherParticles)

colCenter(col) == gridX0 * MPX + col * BOX * MPX + (BOX * MPX) \div 2

hasSampleInMid == \E c \in Cols : midCounts[c] > 0

(***************************************************************************)
(* Engine.tick(dt, now), part by part.                                     *)
(***************************************************************************)
Gravity == IF speed = "fast" THEN G_FAST ELSE G_NORMAL

\* floor(f * total), f = clamp((now - start) / (end - start), 0, 1)
TargetEmitted(p, now) ==
    IF now >= p.end THEN p.total
    ELSE IF now <= p.start THEN 0
    ELSE ((now - p.start) * p.total) \div (p.end - p.start)

\* at most one particle a tick
ToEmitOne(p, now) ==
    IF TargetEmitted(p, now) > p.emitted \/ now >= p.end THEN Min(1, p.total - p.emitted)
    ELSE 0
ToEmit(p, now) ==
    LET toEmit == TargetEmitted(p, now) - p.emitted
    IN  IF toEmit <= 0 /\ now >= p.end THEN p.total - p.emitted ELSE toEmit

\* where a released particle starts: on top of its population column
StartY(col) ==
    IF popCounts[col] > 0
    THEN (marginY + H_TOP - 16) * MPX - (popCounts[col] - 1) * BOX_TOP_Y
         - BOX_TOP_Y \div 2
    ELSE BOX_TOP_Y * 2

\* its stacking slot: level = landed count + particles already in flight
SampleTargetY(col, parts) ==
    LET level == midCounts[col] + CountCol(parts, col)
    IN  (marginY + H_TOP + H_MID - 8) * MPX - level * BOX_MID_Y - BOX_MID_Y \div 2

\* the release loop: while (toEmit-- > 0 && p.emitted < p.total).  A particle
\* also carries the start time of the plan that released it, which the code
\* does not store: it names the sample the particle belongs to.
RECURSIVE ReleaseUncounted(_, _, _, _, _)
ReleaseUncounted(p, toEmit, parts, flashes, now) ==
    IF toEmit <= 0 \/ p.emitted >= p.total
    THEN [plan |-> p, parts |-> parts, flashes |-> flashes]
    ELSE LET col == p.cols[p.emitted + 1]
         IN  ReleaseUncounted(p, toEmit - 1,
                     Append(parts, [col |-> col, y |-> StartY(col), vy |-> 0,
                                    targetY |-> SampleTargetY(col, parts),
                                    sample |-> p.start]),
                     Append(flashes, [col |-> col, y |-> StartY(col),
                                      until |-> now + FLASH_MS]),
                     now)
RECURSIVE Release(_, _, _, _, _)
Release(p, toEmit, parts, flashes, now) ==
    IF toEmit <= 0 \/ p.emitted >= p.total
    THEN [plan |-> p, parts |-> parts, flashes |-> flashes]
    ELSE LET col == p.cols[p.emitted + 1]
         IN  Release([p EXCEPT !.emitted = p.emitted + 1], toEmit - 1,
                     Append(parts, [col |-> col, y |-> StartY(col), vy |-> 0,
                                    targetY |-> SampleTargetY(col, parts),
                                    sample |-> p.start]),
                     Append(flashes, [col |-> col, y |-> StartY(col),
                                      until |-> now + FLASH_MS]),
                     now)

\* the emission block of tick
TickEmission(now) ==
    IF emissionPlan = <<>>
    THEN [plan |-> <<>>, parts |-> sampleParticles, flashes |-> popFlashes]
    ELSE LET r == Release(emissionPlan[1], ToEmit(emissionPlan[1], now),
                          sampleParticles, popFlashes, now)
         IN  [plan |-> IF r.plan.emitted >= r.plan.total THEN <<>> ELSE <<r.plan>>,
              parts |-> r.parts, flashes |-> r.flashes]

\* one physics step: vy += g*dt; y = min(y + vy*dt, targetY)
Fall(q, g, dtMs) ==
    LET vy == q.vy + (g * dtMs) \div 1000
    IN  [q EXCEPT !.vy = vy, !.y = Min(q.y + vy * dtMs, q.targetY)]

Airborne(q) == q.y < q.targetY - LAND_EPS

FallAll(parts, g, dtMs) == [k \in 1 .. Len(parts) |-> Fall(parts[k], g, dtMs)]

\* every particle counted, landed or not
LandedOrFalling(fallen) == fallen
\* the particles the fall loop counts into the histogram: those it does not
\* keep as survivors
Landed(fallen) == SelectSeq(fallen, LAMBDA q : ~Airborne(q))

\* the gather block of tick: t = clamp((now - gatherStart) / gatherDur, 0, 1)
GatherDone(now) == now - gatherStart >= gatherDur

GatherMoved(now) ==
    LET el == clamp(now - gatherStart, 0, gatherDur)
    IN  [k \in 1 .. Len(gatherParticles) |->
            LET gp == gatherParticles[k]
            IN  [gp EXCEPT
                   !.x = gp.sx + ((gatherTarget[1].x - gp.sx) * el) \div gatherDur,
                   !.y = gp.sy + ((gatherTarget[1].y - gp.sy) * el) \div gatherDur]]

StatTargetY(bin) ==
    LET level == botCounts[bin] + CountBin(statParticles, bin)
    IN  (marginY + H_TOP + H_MID + H_BOT - 8) * MPX - level * BOX_BOT_Y
        - BOX_BOT_Y \div 2

\* Engine.draw's rescaling of the three box heights
ScaledBox(hist, size, h) ==
    LET most == MaxCount(hist, size)
    IN  IF most * BOX > 0 THEN Min(BOX * MPX, ((h - 28) * MPX) \div most)
        ELSE BOX * MPX

(***************************************************************************)
(* One animation frame of the host loop (startAnimationLoop.animate):      *)
(* engine.tick(dt, now) with dt = min(0.06, elapsed), then engine.draw()   *)
(* when needsRedraw or an animation is active.  The frame arrives frameMs  *)
(* after the previous one.  A frame that finds nothing animating, nothing  *)
(* to redraw and no timer pending changes only the clock, and every use of *)
(* time in the engine is a difference of times, so such frames are left    *)
(* out.  A due timer callback runs before the next frame.                  *)
(***************************************************************************)
(***************************************************************************)
(* Engine.draw on the histograms mid and bot, with needsRedraw = flag:     *)
(* returns at once when the flag is clear; otherwise clears the canvas,    *)
(* recomputes the three scales, paints, and clears the flag.  frameLog     *)
(* keeps, for the latest frame or call, the flag draw met and whether it   *)
(* painted.                                                                *)
(***************************************************************************)
\* frameLog's mark alternates, so that two entries in a row always differ
NextMark == IF frameLog = <<>> THEN 0 ELSE 1 - frameLog[1].mark

drawAlways(flag, mid, bot, ticked) ==
    /\ BOX_TOP_Y' = ScaledBox(popCounts, COLS, H_TOP)
    /\ BOX_MID_Y' = ScaledBox(mid, COLS, H_MID)
    /\ BOX_BOT_Y' = ScaledBox(bot, STAT_BINS, H_BOT)
    /\ needsRedraw' = FALSE
    /\ frameLog' = <<[ticked |-> ticked, flag |-> flag, called |-> TRUE, drew |-> TRUE,
                      mark |-> NextMark]>>

draw(flag, mid, bot, ticked) ==
    IF ~flag
    THEN /\ UNCHANGED <<scaleVars, needsRedraw>>
         /\ frameLog' = <<[ticked |-> ticked, flag |-> flag, called |-> TRUE,
                           drew |-> FALSE, mark |-> NextMark]>>
    ELSE /\ BOX_TOP_Y' = ScaledBox(popCounts, COLS, H_TOP)
         /\ BOX_MID_Y' = ScaledBox(mid, COLS, H_MID)
         /\ BOX_BOT_Y' = ScaledBox(bot, STAT_BINS, H_BOT)
         /\ needsRedraw' = FALSE
         /\ frameLog' = <<[ticked |-> ticked, flag |-> flag, called |-> TRUE,
                           drew |-> TRUE, mark |-> NextMark]>>

FrameChoices == {60, 100}

\* the next frame's timestamp
NextFrame == lastFrame + frameMs

\* a pending callback whose time comes no later than the next frame
TimerDue == timers # <<>> /\ Head(timers).due <= NextFrame

\* a frame has something to do, and no callback comes before it
FrameDue ==
    /\ turboLeft = 0
    /\ needsRedraw \/ hasActiveAnimations \/ timers # <<>>
    /\ IF timers = <<>> THEN TRUE ELSE Head(timers).due >= NextFrame

\* variant: a flash is kept for twice its time
FlashAliveLong(f, now) == f.until + FLASH_MS > now
\* this.popFlashes.filter((f) => f.until > now)
FlashAlive(f, now) == f.until > now

Animate ==
    /\ FrameDue
    /\ LET now == NextFrame
           dtMs == Min(DT_CAP_MS, frameMs)
           hadAnimations == hasActiveAnimations
           g == Gravity
           em == TickEmission(now)
           fallen == FallAll(em.parts, g, dtMs)
           survivors == SelectSeq(fallen, Airborne)
           landed == Landed(fallen)
           mid1 == AddCols(midCounts, landed)
           gatherEnds == gathering /\ gatherTarget # <<>> /\ GatherDone(now)
           stat0 == IF gatherEnds
                    THEN Append(statParticles,
                                [bin |-> gatherTarget[1].bin, y |-> gatherTarget[1].y,
                                 vy |-> 0, targetY |-> StatTargetY(gatherTarget[1].bin)])
                    ELSE statParticles
           statFallen == FallAll(stat0, g, dtMs)
           stat1 == SelectSeq(statFallen, Airborne)
           bot1 == AddBins(botCounts, SelectSeq(statFallen, LAMBDA q : ~Airborne(q)))
           flashes1 == SelectSeq(em.flashes, LAMBDA f : FlashAlive(f, now))
           gathering1 == IF gatherEnds THEN FALSE ELSE gathering
           gparts1 == IF gatherEnds THEN <<>>
                      ELSE IF gathering /\ gatherTarget # <<>> THEN GatherMoved(now)
                      ELSE gatherParticles
           \* updateLines: when the plan finishes, at every landing, when
           \* the gather ends
           lined == \/ emissionPlan # <<>> /\ em.plan = <<>>
                    \/ Len(landed) > 0
                    \/ gatherEnds
                    \/ Len(stat1) < Len(statFallen)
           \* needsRedraw as tick leaves it
           dirty == \/ needsRedraw \/ hadAnimations
                    \/ Engine_hasActiveAnimations(em.plan, survivors, stat1,
                                                  gathering1, flashes1, gparts1)
       IN  /\ clock' = now
           /\ lastFrame' = now
           /\ emissionPlan' = em.plan
           /\ sampleParticles' = survivors
           /\ midCounts' = mid1
           /\ statParticles' = stat1
           /\ botCounts' = bot1
           /\ popFlashes' = flashes1
           /\ gathering' = gathering1
           /\ gatherTarget' = IF gatherEnds THEN <<>> ELSE gatherTarget
           /\ gatherParticles' = gparts1
           /\ lastGatheringSample' = IF gatherEnds THEN <<>> ELSE lastGatheringSample
           /\ lines' = IF lined
                       THEN updateLines(lines, popCounts, statistic, threshold,
                                        lastSample, bot1, gridX0, gridW)
                       ELSE lines
           \* if (needsRedraw || hasActiveAnimations()) draw()
           /\ IF dirty \/ Engine_hasActiveAnimations(em.plan, survivors, stat1,
                                                     gathering1, flashes1, gparts1)
              THEN draw(dirty, mid1, bot1, TRUE)
              ELSE /\ needsRedraw' = dirty
                   /\ frameLog' = <<[ticked |-> TRUE, flag |-> dirty, called |-> FALSE,
                                     drew |-> FALSE, mark |-> NextMark]>>
                   /\ UNCHANGED scaleVars
    /\ UNCHANGED <<geomVars, popCounts, gatherStart, lastSample, settingVars, rng,
                   hostVars, seedLog, lastPaint, probe, alerts, layoutLog, timers,
                   turboLeft, histVars>>

(***************************************************************************)
(* Engine.startSample / scheduleEmission, at host time now                 *)
(***************************************************************************)
startSample(size, dropMs, now) ==
    \E s \in {sampleN(rng, size, popCounts)} :
        /\ rng' = s.rng
        /\ lastSample' = s.cols
        /\ emissionPlan' = <<[start |-> now, end |-> now + dropMs,
                              total |-> Len(s.cols), emitted |-> 0, cols |-> s.cols]>>
        /\ drawn' = Append(drawn, s.cols)

(***************************************************************************)
(* Engine.calculateWithGather: the statistic of the current sample, its    *)
(* destination bin, the gather particles from the landed counts            *)
(***************************************************************************)
GatherSource == IF Len(lastSample) > 0 THEN lastSample ELSE ListFromCounts(midCounts)

GatherBin(cs) == binOf(computeStat(statistic, threshold, cs), statDomain(statistic), STAT_BINS)

GatherParticleAt(c, r) ==
    LET sy == (marginY + H_TOP + H_MID - 16) * MPX - r * BOX_MID_Y - BOX_MID_Y \div 2
    IN  [sx |-> colCenter(c), sy |-> sy, x |-> colCenter(c), y |-> sy]

\* for each column c, for each row r < midCounts[c]: one gather particle
RECURSIVE GatherParticlesRange(_, _, _)
GatherParticlesRange(counts, lo, hi) ==
    IF hi <= lo THEN <<>>
    ELSE IF hi = lo + 1 THEN [k \in 1 .. counts[lo] |-> GatherParticleAt(lo, k - 1)]
    ELSE GatherParticlesRange(counts, lo, (lo + hi) \div 2)
         \o GatherParticlesRange(counts, (lo + hi) \div 2, hi)

GatherParticlesFrom(counts) == GatherParticlesRange(counts, 0, COLS)

calculateWithGather(now) ==
    LET bin == GatherBin(GatherSource)
    IN  /\ lastGatheringSample' = GatherSource
        /\ gatherParticles' = GatherParticlesFrom(midCounts)
        /\ midCounts' = ZeroCounts(COLS)
        /\ gatherTarget' = <<[x |-> gridX0 * MPX + bin * BOX * MPX + (BOX * MPX) \div 2,
                              y |-> marginY * MPX + H_TOP * MPX + (H_MID * MPX) \div 2,
                              bin |-> bin]>>
        /\ gathering' = TRUE
        /\ gatherStart' = now
        /\ lastSample' = <<>>
        /\ gatherLog' = Append(gatherLog, [bin |-> bin, req |-> Len(requests) + 1, resets |-> resets,
                                          base |-> AddBins(botCounts, statParticles),
                                          val |-> computeStat(statistic, threshold, GatherSource),
                                          kind |-> statistic, th |-> threshold,
                                          samples |-> Len(drawn),
                                          fromTray |-> Len(lastSample) = 0,
                                          landed |-> SumCounts(midCounts, COLS)])

\* setTimeout: callbacks run in the order of their times, and in the order
\* of their creation when the times are equal
RECURSIVE SetTimeout(_, _)
SetTimeout(queue, t) ==
    IF queue = <<>> THEN <<t>>
    ELSE IF Head(queue).due <= t.due THEN <<Head(queue)>> \o SetTimeout(Tail(queue), t)
    ELSE <<t>> \o queue

(***************************************************************************)
(* Engine.drawSampleWithAutoCalculate(n, dropMs): with a current sample,   *)
(* gather it and start the new sample from a 100 ms timer; otherwise start *)
(* the new sample at once.                                                 *)
(***************************************************************************)
drawSampleWithAutoCalculate(size, dropMs, now, pending) ==
    IF Len(lastSample) > 0 \/ hasSampleInMid
    THEN /\ calculateWithGather(now)
         /\ timers' = SetTimeout(pending, [due |-> now + TIMER_MS, kind |-> "start",
                                           n |-> size, dropMs |-> dropMs,
                                           req |-> Len(requests) + 1])
         /\ UNCHANGED <<rng, emissionPlan, drawn>>
    ELSE /\ startSample(size, dropMs, now)
         /\ timers' = pending
         /\ UNCHANGED <<midCounts, gatherVars, gatherLog>>

clearTrayUnflagged ==
    /\ midCounts' = ZeroCounts(COLS)
    /\ lastSample' = <<>>
    /\ sampleParticles' = <<>>
    /\ emissionPlan' = <<>>
    /\ gatherParticles' = <<>>
    /\ gathering' = FALSE
    /\ needsRedraw' = needsRedraw

\* Engine.clearTray
clearTray ==
    /\ midCounts' = ZeroCounts(COLS)
    /\ lastSample' = <<>>
    /\ sampleParticles' = <<>>
    /\ emissionPlan' = <<>>
    /\ gatherParticles' = <<>>
    /\ gathering' = FALSE
    /\ needsRedraw' = TRUE

\* Engine.resetExperiment
resetExperiment ==
    /\ botCounts' = ZeroCounts(STAT_BINS)
    /\ statParticles' = <<>>
    /\ needsRedraw' = TRUE

(***************************************************************************)
(* Engine.fastFinishPrevious: the statistic particles in flight are        *)
(* counted into their bins; if there is a sample (lastSample, particles in *)
(* flight, a plan or landed counts) its statistic is counted, computed     *)
(* from lastSample or else from the landed counts plus the particles in    *)
(* flight; then the tier, the flashes and the gather are cleared.  With an *)
(* empty list the statistic is NaN, the bin is NaN and the write to        *)
(* botCounts[NaN] stores nothing.                                          *)
(***************************************************************************)
hadSample ==
    \/ Len(lastSample) > 0 \/ Len(sampleParticles) > 0 \/ emissionPlan # <<>>
    \/ hasSampleInMid

FinishSource ==
    IF Len(lastSample) > 0 THEN lastSample
    ELSE ListFromCounts(AddCols(midCounts, sampleParticles))

FinishCounted(bot) ==
    IF hadSample /\ Len(FinishSource) > 0
    THEN [bot EXCEPT ![GatherBin(FinishSource)] = @ + 1]
    ELSE bot

fastFinishPrevious ==
    /\ botCounts' = FinishCounted(AddBins(botCounts, statParticles))
    /\ statParticles' = <<>>
    /\ lastSample' = <<>>
    /\ emissionPlan' = <<>>
    /\ sampleParticles' = <<>>
    /\ midCounts' = ZeroCounts(COLS)
    /\ popFlashes' = <<>>
    /\ gathering' = FALSE
    /\ gatherTarget' = <<>>
    /\ gatherParticles' = <<>>
    /\ lastGatheringSample' = <<>>
    /\ needsRedraw' = TRUE

\* a call of engine.fastFinishPrevious()
FastFinishCall ==
    /\ turboLeft = 0
    /\ edits' = edits + 1
    /\ fastFinishPrevious
    /\ UNCHANGED <<lines, geomVars, scaleVars, popCounts, gatherStart, settingVars, rng,
                   clock, lastFrame, hostVars, auxVars, timers, turboLeft, drawn,
                   requests, resets, gatherLog, lastRequestAt, turboLog>>

\* the column a canvas x (px) addresses
ClickCol(xCanvas) == clamp((xCanvas - gridX0) \div BOX, 0, COLS - 1)

\* Engine.clickPopulation(xCanvas, yCanvas)
clickPopulationUncapped(xCanvas, yCanvas) ==
    IF yCanvas > marginY + H_TOP THEN UNCHANGED <<popCounts, needsRedraw>>
    ELSE /\ popCounts' = [popCounts EXCEPT ![ClickCol(xCanvas)] = @ + 1]
         /\ needsRedraw' = TRUE

clickPopulation(xCanvas, yCanvas) ==
    IF yCanvas > marginY + H_TOP THEN UNCHANGED <<popCounts, needsRedraw>>
    ELSE /\ popCounts' = [popCounts EXCEPT ![ClickCol(xCanvas)] =
                             clamp(@ + 1, 0, MAX_WEIGHT)]
         /\ needsRedraw' = TRUE

\* Engine.altClickPopulation(xCanvas, yCanvas)
altClickPopulation(xCanvas, yCanvas) ==
    IF yCanvas > marginY + H_TOP THEN UNCHANGED <<popCounts, needsRedraw>>
    ELSE /\ popCounts' = [popCounts EXCEPT ![ClickCol(xCanvas)] =
                             clamp(@ - 1, 0, MAX_WEIGHT)]
         /\ needsRedraw' = TRUE

(***************************************************************************)
(* Engine.applyGenerator(name): counts[c] = max(0, round(20 w(x_c))).  The *)
(* weights w are exponentials of the bin centres; the tables below are the *)
(* values the formulas give for the 60 bins.                               *)
(***************************************************************************)
GeneratorNames == {"normal", "uniform", "bimodal", "lognormal"}

GeneratorTable(name) ==
    IF name = "normal" THEN
      <<0, 0, 0, 0, 1, 1, 1, 1, 2, 2, 3, 3, 4, 5, 5, 6, 7, 9, 10, 11,
        12, 14, 15, 16, 17, 18, 19, 19, 20, 20, 20, 20, 19, 19, 18, 17, 16, 15, 14, 12,
        11, 10, 9, 7, 6, 5, 5, 4, 3, 3, 2, 2, 1, 1, 1, 1, 0, 0, 0, 0>>
    ELSE IF name = "bimodal" THEN
      <<0, 0, 0, 0, 0, 0, 0, 0, 0, 1, 1, 2, 3, 4, 6, 7, 9, 10, 11, 11,
        10, 9, 8, 7, 5, 4, 2, 2, 1, 1, 0, 0, 0, 1, 1, 2, 3, 4, 5, 6,
        7, 8, 9, 9, 9, 8, 7, 5, 4, 3, 2, 1, 1, 0, 0, 0, 0, 0, 0, 0>>
    ELSE IF name = "lognormal" THEN
      <<0, 0, 2, 8, 18, 31, 44, 55, 65, 72, 76, 79, 80, 79, 78, 75, 72, 68, 65, 61,
        57, 53, 50, 46, 43, 40, 37, 34, 31, 29, 27, 25, 23, 21, 19, 18, 16, 15, 14, 13,
        12, 11, 10, 9, 9, 8, 7, 7, 6, 6, 5, 5, 5, 4, 4, 4, 3, 3, 3, 3>>
    ELSE [k \in 1 .. COLS |-> 20]

GeneratorCounts(name) == [c \in Cols |-> GeneratorTable(name)[c + 1]]

\* variant: the preset is laid over the weights there are
applyGeneratorOver(name) ==
    /\ popCounts' = [c \in Cols |-> Max(popCounts[c], GeneratorCounts(name)[c])]
    /\ needsRedraw' = TRUE
applyGenerator(name) ==
    /\ popCounts' = GeneratorCounts(name)
    /\ needsRedraw' = TRUE

(***************************************************************************)
(* Engine.handleRepeatTurbo(n): TURBO_RUNS iterations of sample, statistic,*)
(* bin, botCounts[bin]++, then needsRedraw.  The handler runs to           *)
(* completion before anything else does: while turboLeft > 0 only the loop *)
(* itself can step.                                                        *)
(***************************************************************************)
TurboBin(cs) == binOf(computeStat(statistic, threshold, cs), statDomain(statistic), STAT_BINS)

\* variant: one iteration short
handleRepeatTurboShort ==
    /\ turboLeft' = TURBO_RUNS - 1

handleRepeatTurbo ==
    /\ turboLeft' = TURBO_RUNS

TurboIterationShrinking ==
    /\ turboLeft > 0
    /\ \E s \in {sampleN(rng, n, popCounts)} :
           /\ rng' = s.rng
           /\ botCounts' = [botCounts EXCEPT ![TurboBin(s.cols)] = @ - 1]
    /\ turboLeft' = turboLeft - 1
    /\ needsRedraw' = IF turboLeft = 1 THEN TRUE ELSE needsRedraw
    /\ UNCHANGED <<geomVars, scaleVars, popCounts, midCounts, sampleParticles,
                   statParticles, popFlashes, gatherVars, emissionPlan, lastSample,
                   settingVars, clock, lastFrame, hostVars, auxVars, timers, histVars>>
    /\ lines' = IF turboLeft = 1 THEN updateLines(lines, popCounts', statistic', threshold', lastSample', botCounts',
                             gridX0', gridW')
                ELSE lines

\* variant: the sample of an iteration is kept as the current sample
TurboIterationKeeping ==
    /\ turboLeft > 0
    /\ \E s \in {sampleN(rng, n, popCounts)} :
           /\ rng' = s.rng
           /\ lastSample' = s.cols
           /\ botCounts' = [botCounts EXCEPT ![TurboBin(s.cols)] = @ + 1]
    /\ turboLeft' = turboLeft - 1
    /\ needsRedraw' = IF turboLeft = 1 THEN TRUE ELSE needsRedraw
    /\ UNCHANGED <<geomVars, scaleVars, popCounts, midCounts, sampleParticles,
                   statParticles, popFlashes, gatherVars, emissionPlan,
                   settingVars, clock, lastFrame, hostVars, auxVars, timers, histVars>>
    /\ lines' = IF turboLeft = 1 THEN updateLines(lines, popCounts', statistic', threshold', lastSample', botCounts',
                             gridX0', gridW')
                ELSE lines
TurboIteration ==
    /\ turboLeft > 0
    /\ \E s \in {sampleN(rng, n, popCounts)} :
           /\ rng' = s.rng
           /\ botCounts' = [botCounts EXCEPT ![TurboBin(s.cols)] = @ + 1]
    /\ turboLeft' = turboLeft - 1
    /\ needsRedraw' = IF turboLeft = 1 THEN TRUE ELSE needsRedraw
    /\ UNCHANGED <<geomVars, scaleVars, popCounts, midCounts, sampleParticles,
                   statParticles, popFlashes, gatherVars, emissionPlan, lastSample,
                   settingVars, clock, lastFrame, hostVars, auxVars, timers, histVars>>
    /\ lines' = IF turboLeft = 1 THEN updateLines(lines, popCounts', statistic', threshold', lastSample', botCounts',
                             gridX0', gridW')
                ELSE lines

(***************************************************************************)
(* The host: buttons, canvas and controls.  The user acts either once      *)
(* everything has settled or at one of the delays ClickDelays (ms) after   *)
(* the previous operation; a handler runs only when no other handler is    *)
(* running (turboLeft = 0).                                                *)
(***************************************************************************)
DRAW_DROP_MS == 1200
MIN_SAMPLE == 2
MAX_SAMPLE == 1000

validateSampleSizeNoMax(size) == ~(size < MIN_SAMPLE)

validateSampleSize(size) == ~(size < MIN_SAMPLE) /\ ~(size > MAX_SAMPLE)

ClickDelays == {0, 60, 300, 660, 1300}
Settled == ~hasActiveAnimations /\ timers = <<>>
UserActs == turboLeft = 0 /\ (Settled \/ (clock - lastRequestAt) \in ClickDelays)

\* a click whose sample size validateSampleSize refuses: alert(), return
RejectedClick ==
    /\ alerts' = alerts + 1
    /\ lastRequestAt' = clock
    /\ UNCHANGED <<lines, geomVars, scaleVars, popCounts, midCounts, botCounts,
                   sampleParticles, statParticles, popFlashes, gatherVars,
                   emissionPlan, lastSample, settingVars, rng, needsRedraw, clock,
                   lastFrame, hostVars, timers, turboLeft, drawn, requests, resets, edits,
                   gatherLog, turboLog, seedLog, lastPaint, probe, frameLog,
                   layoutLog>>

\* the draw-sample button's handler
DrawRequest ==
    IF validateSampleSize(n)
    THEN /\ requests' = Append(requests, clock)
         /\ lastRequestAt' = clock
         /\ drawSampleWithAutoCalculate(n, DRAW_DROP_MS, clock, timers)
         /\ UNCHANGED <<lines, geomVars, scaleVars, popCounts, botCounts, sampleParticles,
                        statParticles, popFlashes, settingVars, needsRedraw, clock,
                        lastFrame, hostVars, auxVars, turboLeft, resets, edits,
                        turboLog>>
    ELSE RejectedClick

\* the draw-sample button
DrawClick == UserActs /\ DrawRequest

\* the setTimeout callback: () => this.startSample(n, dropMs)
TimerFire ==
    /\ turboLeft = 0
    /\ TimerDue
    /\ Head(timers).kind = "start"
    /\ clock' = Max(clock, Head(timers).due)
    /\ startSample(Head(timers).n, Head(timers).dropMs, Max(clock, Head(timers).due))
    /\ timers' = Tail(timers)
    /\ UNCHANGED <<lines, geomVars, scaleVars, popCounts, midCounts, botCounts,
                   sampleParticles, statParticles, popFlashes, gatherVars,
                   settingVars, needsRedraw, lastFrame, hostVars, auxVars, turboLeft, requests,
                   resets, edits, gatherLog, lastRequestAt, turboLog>>

\* the reset button: engine.clearTray(); engine.resetExperiment()
ResetClick ==
    /\ UserActs
    /\ resets' = resets + 1
    /\ lastRequestAt' = clock
    /\ clearTray
    /\ resetExperiment
    /\ UNCHANGED <<geomVars, scaleVars, popCounts, popFlashes, gatherTarget,
                   gatherStart, lastGatheringSample, settingVars, rng, clock, lastFrame,
                   hostVars, auxVars, timers, turboLeft, drawn, requests, edits, gatherLog,
                   turboLog>>
    /\ lines' = updateLines(updateLines(lines, popCounts, statistic, threshold, <<>>,
                                         botCounts, gridX0, gridW),
                             popCounts, statistic, threshold, <<>>,
                             ZeroCounts(STAT_BINS), gridX0, gridW)

\* Engine.clearTray on its own
ClearTrayCall ==
    /\ UserActs
    /\ edits' = edits + 1
    /\ lastRequestAt' = clock
    /\ clearTray
    /\ UNCHANGED <<geomVars, scaleVars, popCounts, botCounts, statParticles,
                   popFlashes, gatherTarget, gatherStart, lastGatheringSample,
                   settingVars, rng, clock, lastFrame, hostVars, auxVars, timers, turboLeft, drawn,
                   requests, resets, gatherLog, turboLog>>
    /\ lines' = updateLines(lines, popCounts', statistic', threshold', lastSample', botCounts',
                             gridX0', gridW')

\* everything but the population, the redraw flag and the history
paintFrame ==
    <<geomVars, scaleVars, midCounts, botCounts, sampleParticles, statParticles,
      popFlashes, gatherVars, emissionPlan, lastSample, rng, clock, lastFrame,
      hostVars, timers, turboLeft, drawn, requests, resets, gatherLog, turboLog>>

\* pointerdown on the canvas: isErase ? altClickPopulation : clickPopulation.
\* lastPaint (history) keeps the bin and the delta the latest click
\* addressed, and whether it fell inside the population tier.
PointerDown(xCanvas, yCanvas, isErase) ==
    /\ UserActs
    /\ edits' = edits + 1
    /\ lastRequestAt' = clock
    /\ lastPaint' = <<[col |-> ClickCol(xCanvas),
                       delta |-> IF isErase THEN 0 - 1 ELSE 1,
                       inside |-> ~(yCanvas > marginY + H_TOP)]>>
    /\ IF isErase THEN altClickPopulation(xCanvas, yCanvas)
       ELSE clickPopulation(xCanvas, yCanvas)
    /\ UNCHANGED <<paintFrame, settingVars, seedLog, probe, alerts, frameLog, layoutLog>>
    /\ lines' = IF yCanvas > marginY + H_TOP THEN lines
                ELSE updateLines(lines, popCounts', statistic', threshold', lastSample', botCounts',
                             gridX0', gridW')

\* the distribution select
DistributionChange(name) ==
    /\ UserActs
    /\ edits' = edits + 1
    /\ lastRequestAt' = clock
    /\ applyGenerator(name)
    /\ UNCHANGED <<paintFrame, settingVars, auxVars>>
    /\ lines' = updateLines(lines, popCounts', statistic', threshold', lastSample', botCounts',
                             gridX0', gridW')

\* the statistic select
StatisticChange(stat) ==
    /\ UserActs
    /\ edits' = edits + 1
    /\ lastRequestAt' = clock
    /\ statistic' = stat
    /\ needsRedraw' = TRUE
    /\ UNCHANGED <<paintFrame, popCounts, threshold, speed, gatherDur, auxVars>>
    /\ lines' = updateLines(lines, popCounts', statistic', threshold', lastSample', botCounts',
                             gridX0', gridW')

\* the threshold slider (threshold in hundredths)
ThresholdChange(th) ==
    /\ UserActs
    /\ edits' = edits + 1
    /\ lastRequestAt' = clock
    /\ threshold' = th
    /\ needsRedraw' = TRUE
    /\ UNCHANGED <<paintFrame, popCounts, statistic, speed, gatherDur, auxVars>>
    /\ lines' = updateLines(lines, popCounts', statistic', threshold', lastSample', botCounts',
                             gridX0', gridW')

\* engine.draw() called outside the animation loop
DrawCall ==
    /\ turboLeft = 0
    /\ draw(needsRedraw, midCounts, botCounts, FALSE)
    /\ UNCHANGED <<lines, geomVars, popCounts, midCounts, botCounts, sampleParticles,
                   statParticles, popFlashes, gatherVars, emissionPlan, lastSample,
                   settingVars, rng, clock, lastFrame, hostVars, timers, turboLeft,
                   histVars, seedLog, lastPaint, probe, alerts, layoutLog>>

\* the seed input: engine.rng = rngMulberry32(parseInt(value) || 0).
\* seedLog (history) keeps, for every seeding, the seed and the number of
\* samples drawn before it.
SeedInputIgnored(seed) ==
    /\ UserActs
    /\ edits' = edits + 1
    /\ lastRequestAt' = clock
    /\ rng' = rng
    /\ seedLog' = Append(seedLog, [seed |-> seed, at |-> Len(drawn)])
    /\ UNCHANGED <<lines, geomVars, scaleVars, popCounts, midCounts, botCounts,
                   sampleParticles, statParticles, popFlashes, gatherVars,
                   emissionPlan, lastSample, settingVars, needsRedraw, clock,
                   lastFrame, hostVars, timers, turboLeft, drawn, requests, resets,
                   gatherLog, turboLog, lastPaint, probe, alerts, frameLog,
                   layoutLog>>

SeedInput(seed) ==
    /\ UserActs
    /\ edits' = edits + 1
    /\ lastRequestAt' = clock
    /\ rng' = rngSeed(seed)
    /\ seedLog' = Append(seedLog, [seed |-> seed, at |-> Len(drawn)])
    /\ UNCHANGED <<lines, geomVars, scaleVars, popCounts, midCounts, botCounts,
                   sampleParticles, statParticles, popFlashes, gatherVars,
                   emissionPlan, lastSample, settingVars, needsRedraw, clock,
                   lastFrame, hostVars, timers, turboLeft, drawn, requests, resets,
                   gatherLog, turboLog, lastPaint, probe, alerts, frameLog,
                   layoutLog>>

\* the repeat-1000 button
TurboClick ==
    /\ UserActs
    /\ IF validateSampleSize(n)
       THEN /\ lastRequestAt' = clock
            /\ turboLog' = Append(turboLog, SumCounts(botCounts, STAT_BINS))
            /\ handleRepeatTurbo
            /\ UNCHANGED <<lines, geomVars, scaleVars, popCounts, midCounts, botCounts,
                           sampleParticles, statParticles, popFlashes, gatherVars,
                           emissionPlan, lastSample, settingVars, rng, needsRedraw, clock,
                           lastFrame, hostVars, auxVars, timers, drawn, requests, resets,
                           edits, gatherLog>>
       ELSE RejectedClick

(***************************************************************************)
(* The repeat-10 button: an async handler.  The click validates n, saves   *)
(* speed and gatherDur, sets speed "fast" and gatherDur 180, makes the     *)
(* first draw and awaits a 200 ms timeout; each resumption makes the next  *)
(* draw (with the host's n of that moment) and awaits again, and the       *)
(* resumption after the tenth wait restores speed and gatherDur.  The      *)
(* pending resumption is a callback of kind "repeat" that carries the      *)
(* number of draws left and the two saved values.                          *)
(***************************************************************************)
REPEAT_RUNS == 10
REPEAT_GAP_MS == 200
REPEAT_DROP_MS == 600
REPEAT_GATHER_MS == 180

RepeatRequest ==
    IF validateSampleSize(n)
    THEN /\ requests' = Append(requests, clock)
         /\ lastRequestAt' = clock
         /\ speed' = "fast"
         /\ gatherDur' = REPEAT_GATHER_MS
         /\ drawSampleWithAutoCalculate(n, REPEAT_DROP_MS, clock,
                SetTimeout(timers, [due |-> clock + REPEAT_GAP_MS, kind |-> "repeat",
                                    left |-> REPEAT_RUNS - 1, prevSpeed |-> speed,
                                    prevGather |-> gatherDur]))
         /\ UNCHANGED <<lines, geomVars, scaleVars, popCounts, botCounts, sampleParticles,
                        statParticles, popFlashes, statistic, threshold, needsRedraw,
                        clock, lastFrame, hostVars, auxVars, turboLeft, resets, edits,
                        turboLog>>
    ELSE RejectedClick

\* the repeat-10 button
RepeatClick == UserActs /\ RepeatRequest

RepeatResume ==
    /\ turboLeft = 0
    /\ TimerDue
    /\ Head(timers).kind = "repeat"
    /\ clock' = Max(clock, Head(timers).due)
    /\ IF Head(timers).left > 0
       THEN /\ requests' = Append(requests, Max(clock, Head(timers).due))
            /\ drawSampleWithAutoCalculate(n, REPEAT_DROP_MS, Max(clock, Head(timers).due),
                   SetTimeout(Tail(timers),
                              [Head(timers) EXCEPT
                                  !.due = Max(clock, Head(timers).due) + REPEAT_GAP_MS,
                                  !.left = @ - 1]))
            /\ UNCHANGED settingVars
       ELSE /\ speed' = Head(timers).prevSpeed
            /\ gatherDur' = Head(timers).prevGather
            /\ timers' = Tail(timers)
            /\ UNCHANGED <<statistic, threshold, midCounts, gatherVars, emissionPlan,
                           lastSample, rng, drawn, requests, gatherLog>>
    /\ UNCHANGED <<lines, geomVars, scaleVars, popCounts, botCounts, sampleParticles,
                   statParticles, popFlashes, needsRedraw, lastFrame, hostVars, auxVars,
                   turboLeft, resets, edits, lastRequestAt, turboLog>>

(***************************************************************************)
(* Initial states: the constructed engine after the host's set-up          *)
(* (applyGenerator('normal'), seed 1234), with the frame interval and the  *)
(* sample size of the run.                                                 *)
(***************************************************************************)
DEFAULT_SEED == 1234
DefaultSeed == SeedValue(FALSE, 0, DEFAULT_SEED)
SampleSizes == {3}

\* resizeCanvas: the canvas size from the container's width and the
\* window's inner height
MIN_PLOT_W == 320
MIN_CANVAS_H == 520
MAX_CANVAS_H == 800

CanvasSize(containerW, innerHeight) ==
    [w |-> Max(MIN_PLOT_W, containerW - 16),
     h |-> Max(MIN_CANVAS_H, Min(MAX_CANVAS_H, (7 * innerHeight) \div 10))]

resizeCanvas(containerW, innerHeight) ==
    layoutFromViewport(CanvasSize(containerW, innerHeight).w,
                       CanvasSize(containerW, innerHeight).h)

\* the window's resize event
Resize(containerW, innerHeight) ==
    /\ UserActs
    /\ edits' = edits + 1
    /\ lastRequestAt' = clock
    /\ resizeCanvas(containerW, innerHeight)
    /\ UNCHANGED <<lines, scaleVars, popCounts, midCounts, botCounts, sampleParticles,
                   statParticles, popFlashes, gatherVars, emissionPlan, lastSample,
                   settingVars, rng, clock, lastFrame, hostVars, timers, turboLeft,
                   drawn, requests, resets, gatherLog, turboLog, seedLog, lastPaint,
                   probe, alerts, frameLog>>

\* engine.layoutFromViewport(w, h) called with sizes of the caller's choice
LayoutCall(w, h) ==
    /\ UserActs
    /\ edits' = edits + 1
    /\ lastRequestAt' = clock
    /\ layoutFromViewport(w, h)
    /\ UNCHANGED <<lines, scaleVars, popCounts, midCounts, botCounts, sampleParticles,
                   statParticles, popFlashes, gatherVars, emissionPlan, lastSample,
                   settingVars, rng, clock, lastFrame, hostVars, timers, turboLeft,
                   drawn, requests, resets, gatherLog, turboLog, seedLog, lastPaint,
                   probe, alerts, frameLog>>

\* the page as first laid out
FirstContainerWidths == {976}
FirstInnerHeights == {1200}

\* the lines as the host's last updateLines left them
LinesInit ==
    lines = updateLines(ConstructedLines, popCounts, statistic, threshold, lastSample,
                        botCounts, gridX0, gridW)

\* the host after initialisation, but for the sample size n
HostFields ==
    /\ EngineFields
    /\ marginY = 8
    /\ BOX_TOP_Y = 8 * MPX /\ BOX_MID_Y = 8 * MPX /\ BOX_BOT_Y = 8 * MPX
    /\ \E cw \in FirstContainerWidths, ih \in FirstInnerHeights :
          /\ HasGeometry(ViewportGeometry(CanvasSize(cw, ih).w, CanvasSize(cw, ih).h))
          /\ layoutLog = <<CanvasSize(cw, ih)>>
    /\ rng = rngSeed(DefaultSeed)
    /\ clock = 0 /\ lastFrame = 0 /\ timers = <<>> /\ turboLeft = 0
    /\ drawn = <<>> /\ requests = <<>> /\ resets = 0 /\ edits = 0
    /\ gatherLog = <<>> /\ turboLog = <<>> /\ lastRequestAt = 0
    /\ seedLog = <<[seed |-> DefaultSeed, at |-> 0]>>
    /\ lastPaint = <<>> /\ probe = <<>> /\ alerts = 0 /\ frameLog = <<>>
    /\ repeatAbort = FALSE

HostState == HostFields /\ frameMs \in FrameChoices

HostInit == HostState /\ n \in SampleSizes

Init ==
    /\ HostInit
    /\ popCounts = GeneratorCounts("normal")
    /\ statistic = "mean"
    /\ LinesInit

(***************************************************************************)
(* Drawing samples: the draw button, the delayed start, the frames, reset. *)
(***************************************************************************)
MaxRequests == 2
MaxResets == 1

DrawButton == Len(requests) < MaxRequests /\ DrawClick
ResetButton == resets < MaxResets /\ ResetClick

Next ==
    \/ Animate
    \/ DrawButton
    \/ TimerFire
    \/ ResetButton

Spec == Init /\ [][Next]_vars

\* The animation loop keeps delivering frames and a set timer fires.  Of
\* the steps of Next, the frames are those that move lastFrame and the
\* timer callbacks those that shorten timers, so the two conditions are
\* weak fairness of Animate and of TimerFire.
FrameStep == FrameDue /\ lastFrame' = NextFrame /\ UNCHANGED timers
CallbackStep == turboLeft = 0 /\ TimerDue /\ timers' = Tail(timers) /\ UNCHANGED lastFrame

SpecFair == Spec /\ WF_<<lastFrame, timers>>(FrameStep) /\ WF_<<lastFrame, timers>>(CallbackStep)

(***************************************************************************)
(* A burst of draw requests, no reset.                                     *)
(***************************************************************************)
MaxBurst == 3

BurstDraw == Len(requests) < MaxBurst /\ DrawClick

NextBurst ==
    \/ Animate
    \/ BurstDraw
    \/ TimerFire

SpecBurst == Init /\ [][NextBurst]_vars

(***************************************************************************)
(* Draw requests around a landing: a request when everything has settled,  *)
(* 60 ms after the request before it (a double click) or 900 ms after it   *)
(* (with 60 ms frames the first particle of a sample lands 960 ms after    *)
(* the draw).                                                              *)
(***************************************************************************)
QuickDelays == {60, 900}

QuickDraw ==
    /\ Len(requests) < MaxBurst
    /\ turboLeft = 0
    /\ Settled \/ (clock - lastRequestAt) \in QuickDelays
    /\ DrawRequest

NextQuick ==
    \/ Animate
    \/ QuickDraw
    \/ TimerFire

SpecQuick == Init /\ [][NextQuick]_vars

(***************************************************************************)
(* fastFinishPrevious called at any moment of the drawing of two samples:  *)
(* while the first is released, while it falls, while its gather runs,     *)
(* while its statistic particle falls.                                     *)
(***************************************************************************)
MaxFinishes == 1

FinishDraw ==
    /\ Len(requests) < MaxRequests
    /\ turboLeft = 0
    /\ Settled \/ (clock - lastRequestAt) \in QuickDelays
    /\ DrawRequest

FinishCall == edits < MaxFinishes /\ FastFinishCall

NextFinish ==
    \/ Animate
    \/ FinishDraw
    \/ TimerFire
    \/ FinishCall

SpecFinish == Init /\ [][NextFinish]_vars

(***************************************************************************)
(* The host of src/unnamed/part_002: its repeat run can be cancelled.      *)
(* repeatAbort is repeatAbortRef.current.  A run waiting in                *)
(* await new Promise(r => setTimeout(r, 200)) is a timer of kind "wake";   *)
(* besides what the handler keeps in its locals (the rounds left, the      *)
(* saved speed and gather duration) the timer carries the number of resets *)
(* made when its run started, which the code does not store: a run whose   *)
(* number is below resets has been cancelled since it started.             *)
(***************************************************************************)
\* handleRepeat(10) up to its first await
handleRepeat ==
    /\ validateSampleSize(n)
    /\ repeatAbort' = FALSE
    /\ requests' = Append(requests, clock)
    /\ lastRequestAt' = clock
    /\ speed' = "fast"
    /\ gatherDur' = REPEAT_GATHER_MS
    /\ drawSampleWithAutoCalculate(n, REPEAT_DROP_MS, clock,
           SetTimeout(timers, [due |-> clock + REPEAT_GAP_MS, kind |-> "wake",
                               left |-> REPEAT_RUNS - 1, prevSpeed |-> speed,
                               prevGather |-> gatherDur, since |-> resets]))
    /\ UNCHANGED <<lines, geomVars, scaleVars, popCounts, botCounts, sampleParticles,
                   statParticles, popFlashes, statistic, threshold, needsRedraw,
                   clock, lastFrame, frameMs, n, auxVars, turboLeft, resets, edits,
                   turboLog>>

\* handleRepeat from its await on: if (abort) break; k++; k < times;
\* if (abort) break; draw; await -- or the finally block
handleRepeatWake ==
    /\ turboLeft = 0
    /\ TimerDue
    /\ Head(timers).kind = "wake"
    /\ clock' = Max(clock, Head(timers).due)
    /\ IF ~repeatAbort /\ Head(timers).left > 0
       THEN /\ requests' = Append(requests, Max(clock, Head(timers).due))
            /\ drawSampleWithAutoCalculate(n, REPEAT_DROP_MS, Max(clock, Head(timers).due),
                   SetTimeout(Tail(timers),
                              [Head(timers) EXCEPT
                                  !.due = Max(clock, Head(timers).due) + REPEAT_GAP_MS,
                                  !.left = @ - 1]))
            /\ UNCHANGED settingVars
       ELSE /\ speed' = Head(timers).prevSpeed
            /\ gatherDur' = Head(timers).prevGather
            /\ timers' = Tail(timers)
            /\ UNCHANGED <<statistic, threshold, midCounts, gatherVars, emissionPlan,
                           lastSample, rng, drawn, requests, gatherLog>>
    /\ UNCHANGED <<lines, geomVars, scaleVars, popCounts, botCounts, sampleParticles,
                   statParticles, popFlashes, needsRedraw, lastFrame, hostVars, auxVars,
                   turboLeft, resets, edits, lastRequestAt, turboLog>>

\* handleReset: cancelRepeat(); e.clearTray(); e.resetExperiment()
handleReset ==
    /\ repeatAbort' = TRUE
    /\ resets' = resets + 1
    /\ lastRequestAt' = clock
    /\ clearTray
    /\ resetExperiment
    /\ UNCHANGED <<lines, geomVars, scaleVars, popCounts, popFlashes, gatherTarget,
                   gatherStart, lastGatheringSample, settingVars, rng, clock, lastFrame,
                   frameMs, n, auxVars, timers, turboLeft, drawn, requests, edits,
                   gatherLog, turboLog>>

(***************************************************************************)
(* A repeat run, a reset that cancels it, and a second run started at once *)
(* or 300 ms later, before or after the cancelled run wakes.               *)
(***************************************************************************)
MaxCancels == 1

CancelDelays == {0, 300}

HostActs == turboLeft = 0 /\ (Settled \/ (clock - lastRequestAt) \in CancelDelays)

RunsWaiting == Len(SelectSeq(timers, LAMBDA t : t.kind = "wake"))

CancelRepeatButton ==
    /\ HostActs
    /\ RunsWaiting < 2
    /\ Len(requests) <= REPEAT_RUNS
    /\ handleRepeat

CancelResetButton ==
    /\ HostActs
    /\ resets < MaxCancels
    /\ handleReset

NextCancel ==
    \/ Animate
    \/ TimerFire
    \/ handleRepeatWake
    \/ CancelRepeatButton
    \/ CancelResetButton

(***************************************************************************)
(* Repeat runs: the repeat-10 button pressed once, or a second time        *)
(* 1820 ms later, between the last draw of the first run (1800 ms) and its *)
(* end (2000 ms), or after everything has settled.                         *)
(***************************************************************************)
MaxRepeats == 2

RepeatsRunning == Len(SelectSeq(timers, LAMBDA t : t.kind = "repeat"))

\* the browser delivers a frame every 70 ms
RepeatFrames == {70}

RepeatDelays == {1820}

RepeatButton ==
    /\ RepeatsRunning < MaxRepeats
    /\ Len(requests) <= (MaxRepeats - 1) * REPEAT_RUNS
    /\ turboLeft = 0
    /\ Settled \/ (clock - lastRequestAt) \in RepeatDelays
    /\ RepeatRequest

NextRepeat ==
    \/ Animate
    \/ TimerFire
    \/ RepeatResume
    \/ RepeatButton

InitRepeat ==
    /\ HostFields
    /\ frameMs \in RepeatFrames
    /\ n \in SampleSizes
    /\ popCounts = GeneratorCounts("normal")
    /\ statistic = "mean"
    /\ LinesInit

SpecRepeat == InitRepeat /\ [][NextRepeat]_vars

SpecCancel == InitRepeat /\ [][NextCancel]_vars

(***************************************************************************)
(* Stacking: a population painted into two bins, so that particles of one  *)
(* sample share a bin, and a second draw request that arrives after the    *)
(* first particle has landed and before the last one is released (with     *)
(* 60 ms frames: landing at 960 ms, last release at 1200 ms).              *)
(***************************************************************************)
StackDelays == {660, 1140}

StackPopulations ==
    {[ZeroCounts(COLS) EXCEPT ![20] = MAX_WEIGHT],
     [ZeroCounts(COLS) EXCEPT ![20] = MAX_WEIGHT, ![40] = 1]}

InitStack ==
    /\ HostInit
    /\ popCounts \in StackPopulations
    /\ statistic = "mean"
    /\ LinesInit

StackDraw ==
    /\ Len(requests) < MaxRequests
    /\ turboLeft = 0
    /\ Settled \/ (clock - lastRequestAt) \in StackDelays
    /\ DrawRequest

NextStack ==
    \/ Animate
    \/ StackDraw
    \/ TimerFire

SpecStack == InitStack /\ [][NextStack]_vars

(***************************************************************************)
(* Emission under uneven frame timing: the interval to the next frame      *)
(* grows while a plan is emitting (short frames, then a long pause, then a *)
(* pause longer than the whole emission), for sample sizes that divide the *)
(* emission time and that do not.                                          *)
(***************************************************************************)
MaxEmitDraws == 2

EmitSizes == {3, 7}

EmitFrames == {60, 260, 1500}

InitEmit ==
    /\ HostState
    /\ n \in EmitSizes
    /\ popCounts = GeneratorCounts("normal")
    /\ statistic = "mean"
    /\ LinesInit

\* the browser delivers the next frame after another interval
FrameJitter ==
    /\ emissionPlan # <<>>
    /\ frameMs' \in {f \in EmitFrames : f > frameMs}
    /\ UNCHANGED <<lines, geomVars, scaleVars, popCounts, midCounts, botCounts,
                   sampleParticles, statParticles, popFlashes, gatherVars,
                   emissionPlan, lastSample, settingVars, rng, needsRedraw, clock,
                   lastFrame, n, repeatAbort, timers, turboLeft, histVars, auxVars>>

EmitDraw == Len(requests) < MaxEmitDraws /\ DrawClick

NextEmit ==
    \/ Animate
    \/ EmitDraw
    \/ TimerFire
    \/ FrameJitter

SpecEmit == InitEmit /\ [][NextEmit]_vars

(***************************************************************************)
(* The repeat-1000 button, with the statistic and the population the       *)
(* controls can have set before it is pressed.                             *)
(***************************************************************************)
MaxTurbos == 1

InitTurbo ==
    /\ HostInit
    /\ frameMs = DT_CAP_MS
    /\ popCounts = GeneratorCounts("normal")
    /\ statistic \in Statistics
    /\ LinesInit

TurboButton == Len(turboLog) < MaxTurbos /\ TurboClick

NextTurbo ==
    \/ TurboButton
    \/ TurboIteration
    \/ Animate

SpecTurbo == InitTurbo /\ [][NextTurbo]_vars

(***************************************************************************)
(* Re-seeding between draws: the seed input, the draw button, the delayed  *)
(* start, the frames.                                                      *)
(***************************************************************************)
MaxSeedings == 1

SeedChoices == {DefaultSeed, SeedValue(TRUE, 0, 5)}

SeedEntry ==
    /\ Len(seedLog) <= MaxSeedings
    /\ \E seed \in SeedChoices : SeedInput(seed)

NextSeed ==
    \/ Animate
    \/ DrawButton
    \/ TimerFire
    \/ SeedEntry

SpecSeed == Init /\ [][NextSeed]_vars

(***************************************************************************)
(* The statistic-to-bin mapping on its own: probe holds two values, a      *)
(* domain and the bins binOf gives them.  The values are multiples of 1/40 *)
(* from below 0 to above 1 (every third bin boundary of the mean's domain  *)
(* and the values between) and square roots of multiples of 1/36.          *)
(***************************************************************************)
ProbeValues ==
    {Rat(k - 2, 40) : k \in 0 .. 44} \cup {SqrtRat(k, 36) : k \in 0 .. 12}

StatDomains == {statDomain(stat) : stat \in Statistics}

ProbeBinOf ==
    /\ probe = <<>>
    /\ \E v \in ProbeValues, w \in ProbeValues, dom \in StatDomains :
          /\ v.sq = w.sq
          /\ probe' = <<[v |-> v, w |-> w, dom |-> dom,
                         binV |-> binOf(v, dom, STAT_BINS),
                         binW |-> binOf(w, dom, STAT_BINS)]>>
    /\ UNCHANGED <<lines, geomVars, scaleVars, popCounts, midCounts, botCounts,
                   sampleParticles, statParticles, popFlashes, gatherVars,
                   emissionPlan, lastSample, settingVars, rng, needsRedraw, clock,
                   lastFrame, hostVars, timers, turboLeft, histVars, seedLog,
                   lastPaint, alerts, frameLog, layoutLog>>

NextBin == ProbeBinOf

SpecBin == Init /\ [][NextBin]_vars

(***************************************************************************)
(* The statistics helpers on their own: probe holds an array a of values   *)
(* (as bin indices, in any order, of length 0 to MaxStatLen), what         *)
(* robustSD and med return for it, the bin line 668 computes from the      *)
(* standard deviation (floor of NaN is NaN: the bin is defined only for a  *)
(* number) and the array as the calls leave it: med sorts a.slice(), a     *)
(* copy, and the other helpers only read a.                                *)
(***************************************************************************)
MaxStatLen == 4

StatBinChoices == {0, 7, 29, 59}

StatArrays == UNION {[1 .. len -> StatBinChoices] : len \in 0 .. MaxStatLen}

ProbeStatistics ==
    /\ probe = <<>>
    /\ \E a \in StatArrays :
          probe' = <<[a |-> a,
                      sd |-> robustSD(a),
                      sdBinDefined |-> ~IsNaN(robustSD(a)),
                      sdBin |-> binOf(robustSD(a), statDomain("sd"), STAT_BINS),
                      med |-> med(a),
                      after |-> a]>>
    /\ UNCHANGED <<lines, geomVars, scaleVars, popCounts, midCounts, botCounts,
                   sampleParticles, statParticles, popFlashes, gatherVars,
                   emissionPlan, lastSample, settingVars, rng, needsRedraw, clock,
                   lastFrame, hostVars, timers, turboLeft, histVars, seedLog,
                   lastPaint, alerts, frameLog, layoutLog>>

NextStat == ProbeStatistics

SpecStat == Init /\ [][NextStat]_vars

(***************************************************************************)
(* popStats on its own: probe holds a population, a threshold and the      *)
(* statistics popStats returns for them.  The populations are the four     *)
(* presets and the empty population, each also with one bin set to 0, to 1 *)
(* or to the largest weight, and a population of two equal bins.           *)
(***************************************************************************)
ProbeBins == {0, 29, 30, 59}

ProbeThresholds == {0, 50, 100}

ProbePopulations ==
    LET base == {GeneratorCounts(name) : name \in GeneratorNames} \cup {ZeroCounts(COLS)}
    IN  base \cup {[g EXCEPT ![c] = w] : g \in base, c \in ProbeBins, w \in {0, 1, MAX_WEIGHT}}
             \cup {[ZeroCounts(COLS) EXCEPT ![20] = 3, ![40] = 3]}

ProbePopStats ==
    /\ probe = <<>>
    /\ \E pc \in ProbePopulations, th \in ProbeThresholds :
          probe' = <<[pc |-> pc, th |-> th, out |-> popStats(pc, th)]>>
    /\ UNCHANGED <<lines, geomVars, scaleVars, popCounts, midCounts, botCounts,
                   sampleParticles, statParticles, popFlashes, gatherVars,
                   emissionPlan, lastSample, settingVars, rng, needsRedraw, clock,
                   lastFrame, hostVars, timers, turboLeft, histVars, seedLog,
                   lastPaint, alerts, frameLog, layoutLog>>

NextPop == ProbePopStats

SpecPop == Init /\ [][NextPop]_vars

(***************************************************************************)
(* sampleN on its own: probe holds a generator state, a sample size, a     *)
(* population and what sampleN returns for them.  The populations are two  *)
(* presets, the empty population (no weight anywhere: the uniform          *)
(* fallback) and populations with all their weight in the first or the     *)
(* last bin.                                                               *)
(***************************************************************************)
MaxDraws == 8

\* 2^32 - 0x6D2B79F5: the next call advances t to 0 and returns 0 / 2^32
\* (the state seed 2463401483 gives, and every seed's state once a period)
ZeroOutputState == Word32(37588, 34315)

GeneratorStates ==
    {rngSeed(DefaultSeed), rngSeed(SeedValue(TRUE, 0, 5)), Word32(0, 0),
     Word32(H16 - 1, H16 - 1), Word32(37595, 34443), ZeroOutputState}

DrawCounts == {0, 1, 2, 3, 5, MaxDraws}

SamplePopulations ==
    {GeneratorCounts("normal"), GeneratorCounts("lognormal"), ZeroCounts(COLS),
     [ZeroCounts(COLS) EXCEPT ![0] = 1], [ZeroCounts(COLS) EXCEPT ![COLS - 1] = MAX_WEIGHT]}

ProbeSampleN ==
    /\ probe = <<>>
    /\ \E t \in GeneratorStates, size \in DrawCounts, weights \in SamplePopulations :
          probe' = <<[t |-> t, size |-> size, weights |-> weights,
                      out |-> sampleN(t, size, weights)]>>
    /\ UNCHANGED <<lines, geomVars, scaleVars, popCounts, midCounts, botCounts,
                   sampleParticles, statParticles, popFlashes, gatherVars,
                   emissionPlan, lastSample, settingVars, rng, needsRedraw, clock,
                   lastFrame, hostVars, timers, turboLeft, histVars, seedLog,
                   lastPaint, alerts, frameLog, layoutLog>>

NextSample == ProbeSampleN

SpecSample == Init /\ [][NextSample]_vars

(***************************************************************************)
(* Painting the population: clicks inside and outside the population tier, *)
(* left of, on and right of the grid, on weights at both ends of the range.*)
(***************************************************************************)
MaxPaints == 2

PaintPopulations ==
    {GeneratorCounts("normal"), [GeneratorCounts("normal") EXCEPT ![20] = MAX_WEIGHT]}

ClickXs == {0 - 40, 333, 2000}
ClickYs == {100, 400}

InitPaint ==
    /\ HostInit
    /\ popCounts \in PaintPopulations
    /\ statistic = "mean"
    /\ LinesInit

PaintClick ==
    /\ edits < MaxPaints
    /\ \E x \in ClickXs, y \in ClickYs, isErase \in BOOLEAN : PointerDown(x, y, isErase)

NextPaint ==
    \/ PaintClick
    \/ Animate

SpecPaint == InitPaint /\ [][NextPaint]_vars

(***************************************************************************)
(* Presets over painted populations: the distribution select, after and    *)
(* before clicks that paint or erase boxes, with the frames between.       *)
(***************************************************************************)
MaxPresets == 2

PresetSelect ==
    /\ edits < MaxPresets
    /\ \E name \in GeneratorNames : DistributionChange(name)

PresetPaint ==
    /\ edits < MaxPresets
    /\ \E x \in ClickXs, y \in ClickYs, isErase \in BOOLEAN : PointerDown(x, y, isErase)

NextPreset ==
    \/ PresetSelect
    \/ PresetPaint
    \/ Animate

SpecPreset == InitPaint /\ [][NextPreset]_vars

(***************************************************************************)
(* Every operation together, a few at a time.                              *)
(***************************************************************************)
MaxOps == 2

OpsDone == Len(requests) + resets + edits + Len(turboLog)

AnyDraw == OpsDone < MaxOps /\ DrawClick
AnyReset == OpsDone < MaxOps /\ ResetClick
AnyClearTray == OpsDone < MaxOps /\ ClearTrayCall
AnyPaint == OpsDone < MaxOps /\ \E isErase \in BOOLEAN : PointerDown(333, 100, isErase)
AnyDistribution == OpsDone < MaxOps /\ DistributionChange("uniform")
AnyStatistic == OpsDone < MaxOps /\ StatisticChange("median")
AnyTurbo == OpsDone < MaxOps /\ TurboClick
AnyThreshold == OpsDone < MaxOps /\ ThresholdChange(30)
AnyResize == OpsDone < MaxOps /\ Resize(656, 800)

NextAll ==
    \/ Animate
    \/ TimerFire
    \/ TurboIteration
    \/ AnyDraw
    \/ AnyReset
    \/ AnyClearTray
    \/ AnyPaint
    \/ AnyDistribution
    \/ AnyStatistic
    \/ AnyTurbo
    \/ AnyThreshold
    \/ AnyResize

InitAll == Init /\ frameMs = DT_CAP_MS

SpecAll == InitAll /\ [][NextAll]_vars

\* The same operations with the frames and the timers kept coming, and the
\* synchronous loop of handleRepeatTurbo running to its end.
TurboStep == turboLeft > 0 /\ turboLeft' = turboLeft - 1

SpecAllFair ==
    /\ SpecAll
    /\ WF_<<lastFrame, timers>>(FrameStep)
    /\ WF_<<lastFrame, timers>>(CallbackStep)
    /\ WF_turboLeft(TurboStep)

(***************************************************************************)
(* Sample sizes inside and outside the accepted range, under the three     *)
(* sampling buttons.  Samples are drawn for the small sizes only.          *)
(***************************************************************************)
MaxAlerts == 2
MaxAccepted == 1
MaxSizeDrawn == 3

SizeChoices == {0 - 1, 0, 1, 2, 3, 1000, 1001}

InitSize ==
    /\ HostState
    /\ frameMs = DT_CAP_MS
    /\ n \in SizeChoices
    /\ popCounts = GeneratorCounts("normal")
    /\ statistic = "mean"
    /\ LinesInit

SizeTried ==
    /\ alerts < MaxAlerts
    /\ Len(requests) + Len(turboLog) < MaxAccepted
    /\ validateSampleSize(n) => n <= MaxSizeDrawn

SizeDraw == SizeTried /\ DrawClick
SizeRepeat == SizeTried /\ RepeatClick
SizeTurbo == SizeTried /\ TurboClick

NextSize ==
    \/ Animate
    \/ TimerFire
    \/ RepeatResume
    \/ TurboIteration
    \/ SizeDraw
    \/ SizeRepeat
    \/ SizeTurbo

SpecSize == InitSize /\ [][NextSize]_vars

(***************************************************************************)
(* Rendering: frames, draws, paints and calls of engine.draw() between     *)
(* frames.                                                                 *)
(***************************************************************************)
RenderPaint == edits < MaxPaints /\ PointerDown(333, 100, FALSE)

NextRender ==
    \/ Animate
    \/ DrawButton
    \/ TimerFire
    \/ RenderPaint
    \/ DrawCall

SpecRender == Init /\ [][NextRender]_vars

(***************************************************************************)
(* Layout: window resizes over narrow, wide, low and tall windows, and     *)
(* layoutFromViewport called with sizes down to zero.                      *)
(***************************************************************************)
MaxLayouts == 2

ContainerWidths == {0, 100, 336, 376, 400, 656, 976, 1500}
InnerHeights == {0, 700, 900, 1000, 1200}
DegenerateSizes == {0, 1, 40}

WindowResize ==
    /\ edits < MaxLayouts
    /\ \E cw \in ContainerWidths, ih \in InnerHeights : Resize(cw, ih)

DirectLayout ==
    /\ edits < MaxLayouts
    /\ \E w \in DegenerateSizes, h \in DegenerateSizes : LayoutCall(w, h)

NextLayout ==
    \/ WindowResize
    \/ DirectLayout
    \/ Animate

SpecLayout == Init /\ [][NextLayout]_vars

(***************************************************************************)
(* Properties                                                              *)
(***************************************************************************)

\* C4: after one draw on an empty sample tier with no other request, once
\* the emission plan has finished and every particle has landed, the
\* sample histogram sums to n and holds, bin by bin, the number of draws
\* whose chosen bin it is.
SingleDrawLanded ==
    /\ Len(requests) = 1 /\ Len(drawn) = 1 /\ lastSample = drawn[1]
    /\ emissionPlan = <<>> /\ sampleParticles = <<>>

C4_SingleDrawHistogram ==
    SingleDrawLanded =>
        /\ SumCounts(midCounts, COLS) = n
        /\ midCounts = HistOf(drawn[1], COLS)

C4_Witness == SingleDrawLanded /\ SumCounts(midCounts, COLS) = n /\ clock > DRAW_DROP_MS

\* C1: two draw requests back to back, the second before the first
\* sample's emission has finished: once everything has settled the
\* sampling distribution holds exactly one count, in the bin of the first
\* sample's statistic, and the sample histogram holds exactly the second
\* sample.
BackToBackSettled ==
    /\ Len(requests) = 2 /\ resets = 0 /\ Len(drawn) = 2
    /\ requests[2] < requests[1] + DRAW_DROP_MS
    /\ Settled

C1_BackToBackDraws ==
    BackToBackSettled =>
        /\ botCounts = HistOf(<<GatherBin(drawn[1])>>, STAT_BINS)
        /\ midCounts = HistOf(drawn[2], COLS)

\* C2: a draw request that arrives while an emission or a gather is active
\* resolves it instantly: when the new sample's emission plan is created,
\* the previous plan has nothing left to release, no particle is in
\* flight, no gather is active, and the sampling distribution already
\* holds every gathered statistic.
PlanCreated == Len(drawn') = Len(drawn) + 1

NothingInFlight ==
    /\ sampleParticles = <<>> /\ statParticles = <<>>
    /\ ~gathering /\ gatherParticles = <<>>

C2_InstantResolution ==
    [][PlanCreated =>
          /\ emissionPlan = <<>>
          /\ NothingInFlight'
          /\ resets = 0 => SumCounts(botCounts', STAT_BINS) = Len(gatherLog')]_vars

C2_Witness == Len(drawn) = 2 /\ gathering /\ emissionPlan # <<>>

\* C3: no sample is silently dropped: without a reset, once the engine is
\* idle the sampling distribution counts every sample drawn, less the one
\* still current in the sample tier.
CurrentSample == IF Len(lastSample) > 0 \/ hasSampleInMid THEN 1 ELSE 0

C3_NoSampleDropped ==
    (resets = 0 /\ Settled) =>
        SumCounts(botCounts, STAT_BINS) = Len(drawn) - CurrentSample

C3_Witness == resets = 0 /\ Settled /\ Len(drawn) = 3 /\ SumCounts(botCounts, STAT_BINS) = 1

\* C5: a gather, left undisturbed (no reset, no further request), leads
\* under continued ticking to exactly one increment of the sampling
\* distribution, in the bin fixed when the gather started; no other bin
\* changes because of it.
LastGather == gatherLog[Len(gatherLog)]

GatherUndisturbed ==
    /\ gatherLog # <<>>
    /\ LastGather.req = Len(requests)
    /\ LastGather.resets = resets

GatherCounted ==
    /\ Settled
    /\ botCounts = [LastGather.base EXCEPT ![LastGather.bin] = @ + 1]

C5_GatherIncrementsOneBin ==
    /\ [](GatherUndisturbed /\ Settled => GatherCounted)
    /\ (GatherUndisturbed /\ gathering) ~> (~GatherUndisturbed \/ GatherCounted)

C5_Witness == GatherUndisturbed /\ GatherCounted

\* C6: handleRepeatTurbo raises the sum of the sampling distribution by
\* exactly TURBO_RUNS, each iteration incrementing exactly one bin; started
\* on an empty distribution, the counts then sum to TURBO_RUNS.
OneBinIncremented ==
    \E b \in StatBins : botCounts' = [botCounts EXCEPT ![b] = @ + 1]

C6_TurboAddsThousand ==
    [][/\ turboLeft > 0 => OneBinIncremented
       /\ turboLeft = 1 =>
             SumCounts(botCounts', STAT_BINS) = turboLog[Len(turboLog)] + TURBO_RUNS]_vars

C6_Witness ==
    /\ turboLeft = 0 /\ turboLog = <<0>> /\ statParticles = <<>>
    /\ SumCounts(botCounts, STAT_BINS) = TURBO_RUNS
(* C7: two engines seeded alike and asked for the same draws yield the     *)
(* same samples.  Every seeding (construction, the seed input) starts a    *)
(* stream; any two streams started from the same seed, over the same       *)
(* population with the same sample size, agree sample by sample, in bin    *)
(* indices and in values, for as long as both run.                         *)
StreamStart(i) == seedLog[i].at

StreamEnd(i) == IF i < Len(seedLog) THEN seedLog[i + 1].at ELSE Len(drawn)

SampleValues(cs) == [k \in 1 .. Len(cs) |-> Rat(Num2(cs[k]), 2 * COLS)]

C7_SeededDeterminism ==
    \A i \in 1 .. Len(seedLog), j \in 1 .. Len(seedLog) :
        seedLog[i].seed = seedLog[j].seed =>
            \A k \in 1 .. Min(StreamEnd(i) - StreamStart(i), StreamEnd(j) - StreamStart(j)) :
                /\ drawn[StreamStart(i) + k] = drawn[StreamStart(j) + k]
                /\ SampleValues(drawn[StreamStart(i) + k]) = SampleValues(drawn[StreamStart(j) + k])

C7_Witness ==
    /\ Len(seedLog) = 2
    /\ seedLog[2].seed = seedLog[1].seed
    /\ seedLog[2].at = 1
    /\ Len(drawn) = 2
    /\ drawn[2] = drawn[1]

(* C8: binOf is monotone and stays in range: for values v <= w the bin of  *)
(* v is at most the bin of w, every bin lies in 0 .. STAT_BINS - 1, values *)
(* below the domain go to bin 0 and values above it to the last bin.       *)
LeqValue(v, w) == v.num * w.den <= w.num * v.den

BelowDomain(v, dom) == ~v.sq /\ 2 * v.num < dom.min2 * v.den

AboveDomain(v, dom) ==
    IF v.sq THEN 4 * v.num > dom.max2 * dom.max2 * v.den
    ELSE 2 * v.num > dom.max2 * v.den

C8_BinOfMonotoneInRange ==
    \A i \in 1 .. Len(probe) :
        /\ probe[i].binV \in 0 .. STAT_BINS - 1
        /\ probe[i].binW \in 0 .. STAT_BINS - 1
        /\ LeqValue(probe[i].v, probe[i].w) => probe[i].binV <= probe[i].binW
        /\ BelowDomain(probe[i].v, probe[i].dom) => probe[i].binV = 0
        /\ AboveDomain(probe[i].w, probe[i].dom) => probe[i].binW = STAT_BINS - 1

C8_Witness ==
    /\ probe # <<>>
    /\ BelowDomain(probe[1].v, probe[1].dom)
    /\ AboveDomain(probe[1].w, probe[1].dom)
    /\ probe[1].binV = 0
    /\ probe[1].binW = STAT_BINS - 1

(* C9: no count of the bottom histogram ever goes down, whatever the       *)
(* operation (frame, draw, gather, turbo, paint, preset change, statistic  *)
(* change, tray reset), except in a step that resets the experiment.       *)
C9_BotNeverShrinks ==
    [][resets' # resets \/ \A b \in StatBins : botCounts'[b] >= botCounts[b]]_vars

C9_Witness ==
    /\ resets = 0
    /\ edits = 1
    /\ turboLeft = 0
    /\ SumCounts(botCounts, STAT_BINS) = TURBO_RUNS

(* C10: a paint click changes only the addressed bin, by +1 or -1, and     *)
(* only when the result stays in 0 .. MAX_WEIGHT (otherwise the bin keeps  *)
(* its weight); every weight stays in that range and the total changes by  *)
(* exactly the change that was applied.                                    *)
PaintApplies ==
    /\ lastPaint'[1].inside
    /\ popCounts[lastPaint'[1].col] + lastPaint'[1].delta \in 0 .. MAX_WEIGHT

PaintEffect ==
    /\ popCounts' = IF PaintApplies
                       THEN [popCounts EXCEPT ![lastPaint'[1].col] = @ + lastPaint'[1].delta]
                       ELSE popCounts
    /\ TotalWeight(popCounts') =
           TotalWeight(popCounts) + (IF PaintApplies THEN lastPaint'[1].delta ELSE 0)

C10_PaintClamps ==
    /\ [](\A c \in Cols : popCounts[c] \in 0 .. MAX_WEIGHT)
    /\ [][edits' # edits => PaintEffect]_vars

C10_Witness ==
    /\ lastPaint # <<>>
    /\ lastPaint[1].inside
    /\ lastPaint[1].delta = 1
    /\ popCounts[lastPaint[1].col] = MAX_WEIGHT

(* C11: validateSampleSize accepts exactly the sizes 2 .. 1000, and a draw, *)
(* repeat or turbo click with a size outside that range is refused without *)
(* any mutation: the generator, the plan, the gather, the histograms, the  *)
(* particles, the callbacks and the settings are as before; conversely the *)
(* generator advances and requests are accepted only with a valid size.    *)
SizeInRange == n \in 2 .. 1000

RefusedUntouched ==
    /\ ~SizeInRange
    /\ UNCHANGED <<lines, geomVars, scaleVars, popCounts, midCounts, botCounts,
                   sampleParticles, statParticles, popFlashes, gatherVars,
                   emissionPlan, lastSample, settingVars, rng, needsRedraw, timers,
                   turboLeft, drawn, requests, turboLog>>

C11_InvalidSizeRefused ==
    /\ [](validateSampleSize(n) <=> SizeInRange)
    /\ [][alerts' # alerts => RefusedUntouched]_vars
    /\ [][(rng' # rng \/ requests' # requests \/ turboLog' # turboLog) => SizeInRange]_vars

C11_Witness == alerts = 2 /\ n = 1001 /\ rng = rngSeed(DefaultSeed) /\ drawn = <<>>

(* C12: every mutating operation sets the dirty flag.  A paint, a preset,  *)
(* a statistic or threshold change, a resize or a tray reset that changes  *)
(* anything, every experiment reset and every completed turbo run leaves   *)
(* needsRedraw set; and a frame whose tick changes a histogram, a          *)
(* particle, the gather, the plan or a flash has the flag set when tick    *)
(* returns.                                                                *)
RenderedState ==
    <<geomVars, popCounts, midCounts, botCounts, sampleParticles, statParticles,
      popFlashes, gatherParticles, gathering, emissionPlan, lastSample, statistic,
      threshold>>

TickedState ==
    <<midCounts, botCounts, sampleParticles, statParticles, popFlashes,
      gatherParticles, gathering, emissionPlan>>

FrameTaken == lastFrame' # lastFrame

DrawConsidered == frameLog' # frameLog

EngineState ==
    <<geomVars, scaleVars, popCounts, midCounts, botCounts, sampleParticles,
      statParticles, popFlashes, gatherVars, emissionPlan, lastSample, settingVars,
      rng, needsRedraw, lines>>

C13_CleanDrawIsNoOp ==
    [][/\ (DrawConsidered /\ ~FrameTaken /\ ~needsRedraw) =>
              (~frameLog'[1].drew /\ UNCHANGED EngineState)
       /\ (DrawConsidered /\ ~frameLog'[1].flag) =>
              (~frameLog'[1].drew /\ UNCHANGED scaleVars)
       /\ (needsRedraw /\ ~needsRedraw') =>
              (DrawConsidered /\ frameLog'[1].drew)]_vars

C13_Witness ==
    /\ frameLog # <<>>
    /\ ~frameLog[1].ticked
    /\ frameLog[1].called
    /\ ~frameLog[1].flag
    /\ ~frameLog[1].drew
    /\ midCounts # ZeroCounts(COLS)

(* C14: after layoutFromViewport(width, height) there is one square cell   *)
(* size B, the smaller of the width-derived and the height-derived size:   *)
(* the grid's column width BOX equals B and the tier heights are 30 B,     *)
(* 24 B and 36 B.                                                          *)
LaidOut == layoutLog # <<>>

CellSize == LayoutBox(layoutLog[1].w, layoutLog[1].h)

C14_SingleCellSize ==
    LaidOut =>
        /\ BOX = CellSize
        /\ H_TOP = 30 * CellSize
        /\ H_MID = 24 * CellSize
        /\ H_BOT = 36 * CellSize

C14_Witness ==
    /\ LaidOut
    /\ edits = 1
    /\ H_TOP = 30 * CellSize /\ H_MID = 24 * CellSize /\ H_BOT = 36 * CellSize
    /\ BOX > CellSize

(* C15: after any layoutFromViewport the grid lies inside the viewport     *)
(* horizontally: gridX0 >= 0 and gridX0 + gridW <= plotW, for every width  *)
(* the host supplies (at least 320) and for degenerate sizes.              *)
C15_GridInsideViewport ==
    LaidOut => (gridX0 >= 0 /\ gridX0 + gridW <= plotW)

C15_Witness ==
    /\ LaidOut
    /\ edits = 1
    /\ plotW = MIN_PLOT_W
    /\ gridW > plotW

(* C16: geometry recomputation is idempotent and marks the scene dirty:    *)
(* a layout call leaves the geometry its arguments determine, so a call    *)
(* with the arguments of the call before it changes no geometry field, and *)
(* every call leaves needsRedraw set.                                      *)
LayoutStep == edits' # edits

C16_LayoutIdempotentDirty ==
    [][LayoutStep =>
          /\ needsRedraw'
          /\ HasGeometry(ViewportGeometry(layoutLog[1].w, layoutLog[1].h))'
          /\ layoutLog' = layoutLog => UNCHANGED geomVars]_vars

C16_Witness ==
    /\ edits = 2
    /\ layoutLog = <<[w |-> 640, h |-> 700]>>
    /\ needsRedraw
    /\ BOX = 10

(* C17: the standard deviation of the empty sequence and of every          *)
(* one-element sequence is 0, a number and not NaN, and the bin computed   *)
(* from it is a defined index of the histogram (bin 0); for every array    *)
(* the standard deviation is a number and its bin lies in                  *)
(* 0 .. STAT_BINS - 1.                                                     *)
C17_ShortSequenceSdZero ==
    \A i \in 1 .. Len(probe) :
        /\ ~IsNaN(probe[i].sd)
        /\ probe[i].sdBinDefined
        /\ probe[i].sdBin \in 0 .. STAT_BINS - 1
        /\ Len(probe[i].a) < 2 =>
              /\ probe[i].sd = Rat(0, 1)
              /\ probe[i].sdBin = 0

C17_Witness ==
    /\ probe # <<>>
    /\ probe[1].a = <<29>>
    /\ probe[1].sd = Rat(0, 1)
    /\ probe[1].sdBin = 0

(* C18: the median of an odd-length sequence is the middle element of its  *)
(* sorted order and the median of an even-length sequence is the average   *)
(* of the two middle elements of its sorted order, whatever the order of   *)
(* the input, and the input is the same sequence after the call.  The k-th *)
(* element of the sorted order is the element with fewer than k elements   *)
(* below it and at least k elements not above it.                          *)
KthSmallest(a, k) ==
    CHOOSE x \in {a[i] : i \in 1 .. Len(a)} :
        /\ Cardinality({i \in 1 .. Len(a) : a[i] < x}) < k
        /\ Cardinality({i \in 1 .. Len(a) : a[i] <= x}) >= k

MiddleOfSorted(a) ==
    LET m == Len(a) \div 2
    IN  IF Len(a) % 2 = 1 THEN Rat(Num2(KthSmallest(a, m + 1)), 2 * COLS)
        ELSE Rat(Num2(KthSmallest(a, m)) + Num2(KthSmallest(a, m + 1)), 4 * COLS)

C18_MedianOfSortedOrder ==
    \A i \in 1 .. Len(probe) :
        /\ probe[i].after = probe[i].a
        /\ Len(probe[i].a) > 0 => probe[i].med = MiddleOfSorted(probe[i].a)

C18_Witness ==
    /\ probe # <<>>
    /\ probe[1].a = <<59, 0, 29>>
    /\ probe[1].after = <<59, 0, 29>>
    /\ probe[1].med = Rat(Num2(29), 2 * COLS)

(* C19: the statistic a gather records for a sample is computeStat of all  *)
(* n values drawn for that sample (the sample drawn last when the gather   *)
(* starts), however many of its particles have landed by then.             *)
GatherOfSample(g) == computeStat(g.kind, g.th, drawn[g.samples])

C19_GatherUsesWholeSample ==
    \A i \in 1 .. Len(gatherLog) :
        /\ gatherLog[i].samples \in 1 .. Len(drawn)
        /\ gatherLog[i].val = GatherOfSample(gatherLog[i])

C19_Witness ==
    /\ Len(gatherLog) = 2
    /\ Len(drawn) = 1
    /\ gatherLog[1].landed = 0 /\ gatherLog[1].val = GatherOfSample(gatherLog[1])
    /\ gatherLog[2].fromTray /\ gatherLog[2].landed = 1
    /\ gatherLog[2].val # GatherOfSample(gatherLog[2])

(* C20: during a tick the sample histogram changes only by landings.  For  *)
(* every bin, the count after the tick is the count before it plus the     *)
(* particles of that bin that were in flight or released in the tick and   *)
(* are no longer in flight after it: a release adds a particle in flight   *)
(* and leaves every bin as it was, a landing removes the particle and adds *)
(* exactly one to its own bin.                                             *)
TickStep == lastFrame' # lastFrame

EmittedOf(plan, whole) == IF plan = <<>> THEN whole ELSE plan[1].emitted

\* the particles of bin c the tick releases
ReleasedInto(c) ==
    IF emissionPlan = <<>> THEN 0
    ELSE Cardinality({k \in emissionPlan[1].emitted + 1
                               .. EmittedOf(emissionPlan', emissionPlan[1].total) :
                         emissionPlan[1].cols[k] = c})

LandedInto(c) ==
    CountCol(sampleParticles, c) + ReleasedInto(c) - CountCol(sampleParticles', c)

C20_MidChangesOnlyByLanding ==
    [][TickStep =>
          \A c \in 0 .. COLS - 1 :
              /\ LandedInto(c) >= 0
              /\ midCounts'[c] = midCounts[c] + LandedInto(c)]_vars

C20_Witness ==
    /\ Len(requests) = 1 /\ resets = 0
    /\ frameLog # <<>> /\ frameLog[1].ticked
    /\ emissionPlan # <<>> /\ emissionPlan[1].emitted = 2
    /\ Len(sampleParticles) = 1 /\ sampleParticles[1].col = drawn[1][2]
    /\ midCounts[drawn[1][1]] = 1
    /\ SumCounts(midCounts, COLS) = 1

(* C21: after a tick at time now a plan has released floor(f * total)      *)
(* particles, f = clamp((now - start) / (end - start), 0, 1), while        *)
(* f < 1, and total (the plan is finished) once f >= 1; the number never   *)
(* exceeds total and never decreases, and the tick creates exactly the     *)
(* particles newly released.  The number is a function of now alone,       *)
(* whatever the number and the spacing of the ticks before.                *)
ReleasedAt(p, now) ==
    IF now >= p.end THEN p.total
    ELSE IF now <= p.start THEN 0
    ELSE CHOOSE k \in 0 .. p.total :
             /\ k * (p.end - p.start) <= (now - p.start) * p.total
             /\ (now - p.start) * p.total < (k + 1) * (p.end - p.start)

SampleBoxes == Len(sampleParticles) + SumCounts(midCounts, COLS)

C21_EmissionFollowsTime ==
    [][TickStep /\ emissionPlan # <<>> =>
          /\ EmittedOf(emissionPlan', emissionPlan[1].total) = ReleasedAt(emissionPlan[1], clock')
          /\ EmittedOf(emissionPlan', emissionPlan[1].total) >= emissionPlan[1].emitted
          /\ EmittedOf(emissionPlan', emissionPlan[1].total) <= emissionPlan[1].total
          /\ emissionPlan' = <<>> <=> clock' >= emissionPlan[1].end
          /\ SampleBoxes' = SampleBoxes + EmittedOf(emissionPlan', emissionPlan[1].total)
                                        - emissionPlan[1].emitted]_vars

C21_Witness ==
    /\ n = 7 /\ Len(requests) = 1
    /\ frameLog # <<>> /\ frameLog[1].ticked
    /\ frameMs = 260 /\ clock = 640
    /\ emissionPlan # <<>> /\ emissionPlan[1].start = 0
    /\ emissionPlan[1].emitted = 3
    /\ SampleBoxes = 3

(* C22: as long as frames keep arriving, the engine becomes idle again and *)
(* again: from every reachable state, once no further request is made, a   *)
(* state is reached where the emission plan is finished, no sample, stat   *)
(* or gather particle is in flight, no gather is active and no flash is    *)
(* pending.                                                                *)
isIdle ==
    /\ emissionPlan = <<>>
    /\ sampleParticles = <<>> /\ gatherParticles = <<>> /\ statParticles = <<>>
    /\ ~gathering
    /\ popFlashes = <<>>

C22_EventuallyIdle == []<>isIdle

C22_Witness ==
    /\ isIdle
    /\ Len(requests) = 2
    /\ Len(gatherLog) = 1
    /\ SumCounts(botCounts, STAT_BINS) = 1
    /\ SumCounts(midCounts, COLS) >= n

(* C23: the sample histogram keeps its landed counts while a gather is in  *)
(* progress (no step that leaves the gather running lowers a count) and is *)
(* cleared by the step at which the gather ends.                           *)
C23_MidKeptDuringGather ==
    [][/\ gathering' => \A c \in Cols : midCounts'[c] >= midCounts[c]
       /\ (gathering /\ ~gathering') => midCounts' = ZeroCounts(COLS)]_vars

C23_Witness ==
    /\ gathering
    /\ Len(gatherLog) = 1 /\ gatherLog[1].landed = n
    /\ Len(gatherParticles) = n
    /\ midCounts = ZeroCounts(COLS)
    /\ clock = gatherStart

(* C24: every render paints the marker lines from a cache that equals what *)
(* updateLines gives on the current population, statistic, threshold,      *)
(* sample, sampling distribution and geometry: the same lines show, with   *)
(* the same values at the same pixels.                                     *)
LineNames == {"parameter", "sampleStat", "samplingMean"}

LineShown(line) == line.visible /\ line.x # <<>>

SameLine(a, b) ==
    /\ LineShown(a) = LineShown(b)
    /\ LineShown(a) => (a.value = b.value /\ a.x = b.x)

RecomputedLines ==
    updateLines(lines, popCounts, statistic, threshold, lastSample, botCounts,
                gridX0, gridW)

LinesFresh == \A k \in LineNames : SameLine(lines[k], RecomputedLines[k])

\* LinesFresh in the state a step leads to
LinesFreshAfter ==
    \E cached \in {lines'} :
    \E fresh \in {updateLines(cached, popCounts', statistic', threshold', lastSample',
                              botCounts', gridX0', gridW')} :
        \A k \in LineNames : SameLine(cached[k], fresh[k])

Painted == frameLog' # frameLog /\ frameLog'[1].drew

C24_LinesNeverStale == [][Painted => LinesFreshAfter]_vars

C24_Witness ==
    /\ frameLog # <<>> /\ frameLog[1].drew /\ ~needsRedraw
    /\ Len(requests) = 0 /\ edits = 1
    /\ plotW = 640 /\ gridX0 = 20 /\ gridW = 600
    /\ lines.parameter.x = Rat(480, 1)
    /\ RecomputedLines.parameter.x = Rat(320, 1)

(* C25: sampleN(n) leaves the generator where n calls leave it, with and   *)
(* without weight in the population, and returns n bins, each in           *)
(* 0 .. COLS - 1, and n values, the i-th being (bin i + 0.5) / COLS.       *)
RECURSIVE AdvancedBy(_, _)
AdvancedBy(t, k) == IF k = 0 THEN t ELSE AdvancedBy(rngAdvance(t), k - 1)

C25_SampleNDrawsExactlyN ==
    \A i \in 1 .. Len(probe) :
        LET p == probe[i]
        IN  /\ p.out.rng = AdvancedBy(p.t, p.size)
            /\ Len(p.out.cols) = p.size /\ Len(p.out.xs) = p.size
            /\ \A k \in 1 .. p.size :
                   /\ p.out.cols[k] \in 0 .. COLS - 1
                   /\ p.out.xs[k].den # 0 /\ ~p.out.xs[k].sq
                   /\ 2 * COLS * p.out.xs[k].num = (2 * p.out.cols[k] + 1) * p.out.xs[k].den

C25_Witness ==
    /\ probe # <<>>
    /\ probe[1].weights = ZeroCounts(COLS)
    /\ probe[1].size = MaxDraws
    /\ probe[1].t = rngSeed(DefaultSeed)
    /\ probe[1].out.rng = AdvancedBy(rngSeed(DefaultSeed), MaxDraws)
    /\ Cardinality({probe[1].out.cols[k] : k \in 1 .. MaxDraws}) > 1

(* C26: while a sample is being released its particles in one bin are      *)
(* given different stacking levels: no two particles of one sample that    *)
(* are falling into the same bin have the same slot (targetY).             *)
SlotsDistinct(parts) ==
    \A i, j \in 1 .. Len(parts) :
        (i # j /\ parts[i].col = parts[j].col /\ parts[i].sample = parts[j].sample)
            => parts[i].targetY # parts[j].targetY

C26_LevelsDistinctWithinSample == SlotsDistinct(sampleParticles)

\* the second and the third particle of the sample drawn at 0, both falling
\* into bin 20 and both given level 1, 60 ms after the second draw request
C26_Witness ==
    /\ requests = <<0, 1140>> /\ clock = 1200
    /\ drawn = <<(<<20, 20, 20>>)>>
    /\ Len(sampleParticles) = 2
    /\ sampleParticles[1].sample = 0 /\ sampleParticles[2].sample = 0
    /\ sampleParticles[1].col = 20 /\ sampleParticles[2].col = 20
    /\ sampleParticles[1].targetY = sampleParticles[2].targetY
    /\ sampleParticles[1].y > sampleParticles[2].y

(* C27: a flash made by the tick at time t (until = t + 160) stays through *)
(* every tick before t + 160 and is gone after the first tick at or after  *)
(* it; only a tick changes the flashes, and a tick makes one flash for     *)
(* each particle it releases; a tick that starts or ends with a flash      *)
(* leaves the dirty flag set; and a tick that changes the flashes while    *)
(* nothing lands leaves the three histograms as they were.                 *)
FlashSet(fl) == {fl[i] : i \in 1 .. Len(fl)}

ReleasedInTick ==
    IF emissionPlan = <<>> THEN 0
    ELSE EmittedOf(emissionPlan', emissionPlan[1].total) - emissionPlan[1].emitted

\* the tick adds a statistic particle when the gather ends
GatherEndsInTick == gathering /\ ~gathering'

NothingLands ==
    /\ Len(sampleParticles') = Len(sampleParticles) + ReleasedInTick
    /\ Len(statParticles') = Len(statParticles) + (IF GatherEndsInTick THEN 1 ELSE 0)

C27_FlashLifetime ==
    [][/\ popFlashes' # popFlashes => TickStep
       /\ TickStep =>
             /\ \A f \in FlashSet(popFlashes') : f.until > clock'
             /\ \A f \in FlashSet(popFlashes) : f.until > clock' => f \in FlashSet(popFlashes')
             /\ \A f \in FlashSet(popFlashes') \ FlashSet(popFlashes) :
                    f.until = clock' + FLASH_MS
             /\ Len(popFlashes') =
                    Len(SelectSeq(popFlashes, LAMBDA f : f.until > clock')) + ReleasedInTick
             /\ (popFlashes # <<>> \/ popFlashes' # <<>>) => frameLog'[1].flag
             /\ (popFlashes' # popFlashes /\ NothingLands) =>
                    UNCHANGED <<popCounts, midCounts, botCounts>>]_vars

\* the flash of the first release (420 ms, 60 ms frames) has just expired
C27_Witness ==
    /\ frameMs = 60 /\ n = 3 /\ clock = 600 /\ requests = <<0>>
    /\ popFlashes = <<>>
    /\ emissionPlan # <<>> /\ emissionPlan[1].emitted = 1
    /\ Len(sampleParticles) = 1
    /\ frameLog # <<>> /\ frameLog[1].ticked /\ frameLog[1].flag

(* C28: the median popStats returns is (c + 0.5) / COLS for the first bin  *)
(* c whose cumulative weight is at least half the total weight, and 0.5    *)
(* when the population has no weight.                                      *)
CumulativeWeight(pc, c) == SumRange(pc, 0, c + 1)

HalfReachedAt(pc, c) == 2 * CumulativeWeight(pc, c) >= TotalWeight(pc)

C28_WeightedMedian ==
    \A i \in 1 .. Len(probe) :
        LET pc == probe[i].pc
            m == probe[i].out.med
        IN  /\ m.den > 0 /\ ~m.sq
            /\ IF TotalWeight(pc) = 0
               THEN 2 * m.num = m.den
               ELSE \E c \in Cols :
                       /\ HalfReachedAt(pc, c)
                       /\ \A d \in 0 .. c - 1 : ~HalfReachedAt(pc, d)
                       /\ 2 * COLS * m.num = Num2(c) * m.den

\* two equal bins: half the weight is reached, not passed, at the first
C28_Witness ==
    /\ probe # <<>>
    /\ probe[1].pc = [ZeroCounts(COLS) EXCEPT ![20] = 3, ![40] = 3]
    /\ probe[1].out.med = Lowest(Rat(Num2(20), 2 * COLS))

(* C29: choosing a preset leaves in every bin the weight the preset has    *)
(* for that bin, a natural number, whatever the weights were before;       *)
(* choosing the preset the population already equals changes no weight;    *)
(* and the dirty flag is set after every choice.                           *)
C29_PresetReplacesWeights ==
    [][\A name \in GeneratorNames :
          DistributionChange(name) =>
              /\ \A c \in Cols : popCounts'[c] \in Nat /\ popCounts'[c] = GeneratorCounts(name)[c]
              /\ popCounts = GeneratorCounts(name) => popCounts' = popCounts
              /\ needsRedraw']_vars

\* the uniform preset chosen over a population a click had painted
C29_Witness ==
    /\ edits = 2 /\ lastPaint # <<>> /\ lastPaint[1].inside
    /\ popCounts = GeneratorCounts("uniform")
    /\ needsRedraw

(* C30: a sample of size n that starts on an empty tier (no landed count,  *)
(* no particle in flight) has n particles to release, and every tick keeps *)
(* landed + in flight + not yet released as it was; so until the next      *)
(* request or reset the three add up to n after every tick.                *)
Unreleased(plan) == IF plan = <<>> THEN 0 ELSE plan[1].total - plan[1].emitted

TierTotal == SumCounts(midCounts, COLS) + Len(sampleParticles) + Unreleased(emissionPlan)

TierEmpty == SumCounts(midCounts, COLS) = 0 /\ sampleParticles = <<>>

SampleStarts == drawn' # drawn

C30_ConservationDuringEmission ==
    [][/\ (SampleStarts /\ TierEmpty) => TierTotal' = n
       /\ TickStep => TierTotal' = TierTotal
       /\ (TickStep /\ Len(requests) = 1 /\ resets = 0) => TierTotal' = n]_vars

\* one landed, one in flight, one not yet released
C30_Witness ==
    /\ Len(requests) = 1 /\ resets = 0 /\ n = 3
    /\ frameLog # <<>> /\ frameLog[1].ticked
    /\ SumCounts(midCounts, COLS) = 1
    /\ Len(sampleParticles) = 1
    /\ Unreleased(emissionPlan) = 1

(* C31: a call of fastFinishPrevious leaves no plan, no sample particle,   *)
(* no statistic particle, no gather and no flash, and the total of the     *)
(* sampling-distribution histogram grows by the number of statistic        *)
(* particles in flight, plus one if a gather was running, plus one if      *)
(* there was a current sample; every bin grows at least by its statistic   *)
(* particles in flight and by the running gather if it is the gather's     *)
(* destination.                                                            *)
FinishStep == edits' = edits + 1

GatherPending(b) ==
    IF gathering /\ gatherTarget # <<>> /\ gatherTarget[1].bin = b THEN 1 ELSE 0

StatPending(b) == Len(SelectSeq(statParticles, LAMBDA q : q.bin = b))

C31_FastFinishKeepsStatistics ==
    [][FinishStep =>
          /\ emissionPlan' = <<>> /\ sampleParticles' = <<>> /\ statParticles' = <<>>
          /\ ~gathering' /\ gatherParticles' = <<>> /\ popFlashes' = <<>>
          /\ SumCounts(botCounts', STAT_BINS) =
                 SumCounts(botCounts, STAT_BINS) + Len(statParticles)
                 + (IF gathering THEN 1 ELSE 0) + (IF hadSample THEN 1 ELSE 0)
          /\ \A b \in StatBins :
                 botCounts'[b] >= botCounts[b] + StatPending(b) + GatherPending(b)]_vars

\* called while the gather of the first sample runs: nothing is counted
C31_Witness ==
    /\ edits = 1 /\ Len(requests) = 2 /\ gatherLog # <<>>
    /\ ~gathering /\ gatherTarget = <<>>
    /\ SumCounts(botCounts, STAT_BINS) = 0
    /\ statParticles = <<>> /\ sampleParticles = <<>> /\ emissionPlan = <<>>
    /\ timers # <<>>

(* C32: a reset leaves the sample histogram, the current sample, the       *)
(* particle lists and the sampling-distribution histogram empty, and from  *)
(* then on every step that is not a new draw or turbo request leaves them   *)
(* empty.                                                                  *)
TierAndTrayEmpty ==
    /\ midCounts = ZeroCounts(COLS) /\ botCounts = ZeroCounts(STAT_BINS)
    /\ lastSample = <<>> /\ emissionPlan = <<>>
    /\ sampleParticles = <<>> /\ statParticles = <<>> /\ gatherParticles = <<>>

ResetStep == resets' = resets + 1

RequestStep == requests' # requests \/ turboLog' # turboLog

C32_ResetStaysEmpty ==
    [][/\ ResetStep => TierAndTrayEmpty'
       /\ (resets > 0 /\ TierAndTrayEmpty /\ ~RequestStep) => TierAndTrayEmpty']_vars

\* the sample started by the timer of the request made before the reset
C32_Witness ==
    /\ resets = 1 /\ Len(requests) = 2 /\ Len(drawn) = 2
    /\ lastRequestAt = requests[2] + 60
    /\ clock = requests[2] + TIMER_MS
    /\ emissionPlan # <<>> /\ emissionPlan[1].start = clock
    /\ lastSample = drawn[2]
    /\ timers = <<>>

(* C33: when no repeat run is in progress the speed and the gather         *)
(* duration are the ones the engine had before the first run started (no   *)
(* other control changes them here): "normal" and 260 ms.                  *)
C33_RepeatRestoresSettings ==
    RepeatsRunning = 0 => (speed = "normal" /\ gatherDur = 260)

\* two runs, the second started during the first, both finished
C33_Witness ==
    /\ Len(requests) = 2 * REPEAT_RUNS
    /\ RepeatsRunning = 0
    /\ requests[REPEAT_RUNS + 1] - requests[1] < REPEAT_RUNS * REPEAT_GAP_MS
    /\ speed = "fast" /\ gatherDur = REPEAT_GATHER_MS

(* C34: a repeat run that has been cancelled since it started issues no    *)
(* further draw request: when its wait ends it is not armed again.         *)
Rearmed(t) ==
    \E k \in 1 .. Len(timers') :
        /\ timers'[k].kind = "wake"
        /\ timers'[k].since = t.since
        /\ timers'[k].left = t.left - 1
        /\ timers'[k].due = Max(clock, t.due) + REPEAT_GAP_MS

Waiting(queue, t) == Len(SelectSeq(queue, LAMBDA u : u = t))

\* the wait of a run cancelled since it started ends: its timer is taken
\* off the queue
CancelledRunWakes ==
    /\ timers # <<>> /\ Head(timers).kind = "wake" /\ Head(timers).since < resets
    /\ Waiting(timers', Head(timers)) < Waiting(timers, Head(timers))

C34_CancelledRunStops ==
    [][CancelledRunWakes => (requests' = requests /\ ~Rearmed(Head(timers)))]_vars

\* the cancelled run has gone on to its last round beside the second run
C34_Witness ==
    /\ resets = 1 /\ ~repeatAbort
    /\ RunsWaiting = 2
    /\ \E k \in 1 .. Len(timers) :
          timers[k].kind = "wake" /\ timers[k].since = 0 /\ timers[k].left = 0
    /\ \E k \in 1 .. Len(timers) :
          timers[k].kind = "wake" /\ timers[k].since = 1

(* C36: a turbo run goes past the animation: from the click to its last    *)
(* iteration the sample histogram, the current sample, the plan, the       *)
(* particle lists, the flashes and the gather state stay as they are; each *)
(* of its TURBO_RUNS iterations calls the generator n times; and with one  *)
(* seeding the generator is always where the draws of the samples and n    *)
(* calls for every turbo iteration made so far put it.                     *)
AnimationState ==
    <<midCounts, lastSample, emissionPlan, sampleParticles, statParticles,
      popFlashes, gatherVars, popCounts, settingVars, timers, clock>>

\* k * 0x6D2B79F5 mod 2^32, k < 2^16
IncTimes(k) ==
    Add32(Mul16(k, MULBERRY_INC[2]), Word32(MulLo16(k, MULBERRY_INC[1]), 0))

RECURSIVE TotalLength(_)
TotalLength(samples) ==
    IF samples = <<>> THEN 0 ELSE Len(Head(samples)) + TotalLength(Tail(samples))

CallsMade == TotalLength(drawn) + n * (TURBO_RUNS * Len(turboLog) - turboLeft)

C36_TurboBypassesAnimation ==
    /\ [][/\ (turboLeft = 0 /\ turboLeft' > 0) =>
                (turboLeft' = TURBO_RUNS /\ UNCHANGED <<AnimationState, rng, botCounts>>)
          /\ turboLeft > 0 =>
                /\ turboLeft' = turboLeft - 1
                /\ UNCHANGED AnimationState
                /\ rng' = AdvancedBy(rng, n)]_vars
    /\ [](Len(seedLog) = 1 => rng = Add32(rngSeed(seedLog[1].seed), IncTimes(CallsMade)))

\* a turbo run finished while the second particle of a sample is falling
C36_Witness ==
    /\ turboLeft = 0 /\ Len(turboLog) = 1 /\ Len(drawn) = 1
    /\ SumCounts(botCounts, STAT_BINS) = TURBO_RUNS
    /\ emissionPlan # <<>> /\ Len(sampleParticles) > 0
    /\ lastSample = drawn[1]
    /\ rng = Add32(rngSeed(DefaultSeed), IncTimes(n * (TURBO_RUNS + 1)))

(* C35: when the population has weight, every bin sampleN returns has      *)
(* positive weight, whatever the generator returns, 0 included.            *)
C35_SampleNAvoidsEmptyBins ==
    \A i \in 1 .. Len(probe) :
        TotalWeight(probe[i].weights) > 0 =>
            \A k \in 1 .. probe[i].size : probe[i].weights[probe[i].out.cols[k]] > 0

\* the generator returns exactly 0 and the first bin is empty
C35_Witness ==
    /\ probe # <<>>
    /\ probe[1].t = ZeroOutputState /\ probe[1].size = 1
    /\ rngOutput(rngAdvance(probe[1].t)) = Word32(0, 0)
    /\ probe[1].weights = GeneratorCounts("normal")
    /\ TotalWeight(probe[1].weights) > 0
    /\ probe[1].weights[0] = 0
    /\ probe[1].out.cols = <<0>>

(***************************************************************************)
(* Draws with changes of the statistic and of the threshold between them:  *)
(* no reset and no turbo run, so the entries of the sampling histogram are *)
(* the gathers that have landed, in the order of gatherLog.  The threshold *)
(* slider is shown only while the statistic is the proportion.             *)
(***************************************************************************)
MaxKindDraws == 2
MaxKindEdits == 2
KindChoices == {"median", "proportion"}
KindThresholds == {30}
KindDelays == {300}

KindActs == Settled \/ (clock - lastRequestAt) \in KindDelays

KindDraw == Len(requests) < MaxKindDraws /\ KindActs /\ DrawClick
KindSelect ==
    /\ edits < MaxKindEdits /\ KindActs
    /\ \E stat \in KindChoices \ {statistic} : StatisticChange(stat)
KindSlide ==
    /\ edits < MaxKindEdits /\ KindActs
    /\ statistic = "proportion"
    /\ \E th \in KindThresholds \ {threshold} : ThresholdChange(th)

NextKind ==
    \/ Animate
    \/ TimerFire
    \/ KindDraw
    \/ KindSelect
    \/ KindSlide

InitKind == Init /\ frameMs = DT_CAP_MS

SpecKind == InitKind /\ [][NextKind]_vars

(* C37: every entry counted in the sampling histogram was computed with    *)
(* the statistic kind and the threshold now selected, and binned over the  *)
(* domain of the statistic now selected.                                   *)
CountedEntries == SubSeq(gatherLog, 1, SumCounts(botCounts, STAT_BINS))

EntryIsCurrent(g) ==
    /\ g.kind = statistic
    /\ g.kind = "proportion" => g.th = threshold
    /\ g.bin = binOf(g.val, statDomain(statistic), STAT_BINS)

C37_HistogramOneKind ==
    \A i \in 1 .. Len(CountedEntries) : EntryIsCurrent(CountedEntries[i])

\* a mean has been counted and the statistic is now the median
C37_Witness ==
    /\ SumCounts(botCounts, STAT_BINS) = 1 /\ Len(gatherLog) >= 1
    /\ botCounts[gatherLog[1].bin] = 1
    /\ gatherLog[1].kind = "mean" /\ statistic = "median"
    /\ edits = 1 /\ resets = 0 /\ turboLog = <<>>

(* C38: with the seed and the population fixed, the sample the k-th        *)
(* request gets is decided by the sizes requested alone.  Every request    *)
(* asks for n values, and a request made after the sample before it has    *)
(* started gets the k-th run of n values of the generator; so whenever a   *)
(* sample is drawn, at a request or at its timer, it is that run of the    *)
(* request it belongs to.                                                  *)
ReferenceSample(k) ==
    sampleN(AdvancedBy(rngSeed(seedLog[1].seed), (k - 1) * n), n, popCounts).cols

\* the request whose sample a step draws: the request just made when the
\* sample starts at once, else the request of the timer that fires
RequestServed == IF Len(requests') > Len(requests) THEN Len(requests') ELSE Head(timers).req

C38_SampleByRequestOrder ==
    [][Len(drawn') = Len(drawn) + 1 =>
          \E k \in {RequestServed} : \E ref \in {ReferenceSample(k)} :
              drawn'[Len(drawn')] = ref]_vars

\* the third request, 60 ms after the second, has started at once with the
\* second run of values while the second request's timer is still pending
C38_Witness ==
    /\ Len(requests) = 3 /\ clock = requests[3] /\ requests[3] = requests[2] + 60
    /\ Len(drawn) = 2
    /\ timers # <<>> /\ Head(timers).kind = "start" /\ Head(timers).req = 2
    /\ drawn[2] = ReferenceSample(2)
    /\ drawn[2] # ReferenceSample(3)
    /\ lastSample = drawn[2]

====